---- MODULE Spec2Model ----
(***************************************************************************)
(* A model of agent-usage: the persistence reconciler of                   *)
(* internal/tracker/sqlite.go over the store of internal/tracker/db.go,    *)
(* the sync loop of cmd/root.go, the session assemblers of                 *)
(* internal/tracker/codex_parser.go and claude_parser.go, and LoadConfig   *)
(* of internal/config.                                                     *)
(*                                                                         *)
(* Specifications:                                                         *)
(*   Spec       sequential TrackSession / TrackClaudeSession calls on one  *)
(*              store, each storage operation of a call may fail           *)
(*   SpecRetry  a reconcile that failed, run again on the same session     *)
(*   SpecSync   runSync for one agent, or for codex and then claude        *)
(*   SpecSyncAll the same, no reconcile stopping halfway                   *)
(*   SpecRace   two reconciles interleaved at the storage operations       *)
(*   SpecCodex  ParseCodexSession over every bounded file                  *)
(*   SpecClaude ParseClaudeSession over every bounded file                 *)
(*   SpecParsers either assembler over every bounded file                  *)
(*   SpecStats  the aggregation queries over stores filled by InsertSession*)
(*   SpecConfig LoadConfig over every bounded state of the config files    *)
(***************************************************************************)
EXTENDS Integers, Sequences, FiniteSets, TLC

VARIABLES
    db,         \* the SQLite store: tables sessions, messages, tool_calls, metadata
    lastCall,   \* the latest TrackSession / TrackClaudeSession call and what it returned
    sync,       \* runSync's locals: agent, files, loop position, counters
    shadow,     \* the same batch reconciled without its failing files
    workers,    \* the position and locals of each interleaved reconcile
    codex,      \* ParseCodexSession: the file, the loop position, the session
    claude,     \* ParseClaudeSession: the file, the loop position, the session
    config      \* LoadConfig: the files it finds, its argument, what it returned

vars == <<db, lastCall, sync, shadow, workers, codex, claude, config>>

-----------------------------------------------------------------------------
(* Bounds of the model *)

MaxMsgs == 2
MaxTools == 1
MaxFiles == 2
MaxNow == 2
MaxLines == 3
TicksPerSecond == 2

-----------------------------------------------------------------------------
(* Values *)

\* A pointer, a nullable column or an optional JSON field: Nil when absent,
\* Some(x) when it holds x.
Nil == <<>>
Some(x) == <<x>>

\* time.Time is modelled in ticks; tick 0 is the zero time.Time.
ZeroTime == 0

\* time.Time{}.Unix() is -62135596800; TLC's integers are 32 bits wide, so the
\* model keeps a negative stamp below every stamp of a real time.
ZeroTimeUnix == 0 - 62135596

\* t.Unix(): whole seconds, the fraction dropped.
Unix(t) == IF t = ZeroTime THEN ZeroTimeUnix ELSE t \div TicksPerSecond

\* The external ids sessions are drawn from; "" is the unidentified session.
ExternalIDs == {"", "s1"}

Sources == {"codex", "claude"}

\* Mutant: cache creation billed at the input price.
CostUnits_CacheAsInput(tokens) ==
    300 * tokens.Input + 1500 * tokens.Output
        + 300 * tokens.CacheCreation + 30 * tokens.CacheRead

\* cost in units of 1e-8 USD, so that the float64 sums are exact integers.
CostUnits(tokens) ==
    300 * tokens.Input + 1500 * tokens.Output
        + 375 * tokens.CacheCreation + 30 * tokens.CacheRead

\* The i-th message and the i-th tool call of a session's log.
Message(i) ==
    [Role      |-> IF i % 2 = 1 THEN "user" ELSE "assistant",
     Content   |-> <<"text", i>>,
     Timestamp |-> TicksPerSecond * (100 + i) + 1]

ToolCall(i) ==
    [ToolName  |-> "read_file",
     Arguments |-> <<"args", i>>,
     Result    |-> "",
     Timestamp |-> TicksPerSecond * (150 + i) + 1]

\* The variants of a session's scalar fields (project, model, times, tokens).
Variants == {1, 2}

\* A parsed session (CodexSession / ClaudeSession) with scalar variant v, the
\* first n messages and the first t tool calls of its log.
ParsedSession(id, provider, v, n, t) ==
    LET tokens == [Input |-> 10 * v, Output |-> 5 * v,
                   CacheCreation |-> IF provider = "anthropic" THEN 2 * v ELSE 0,
                   CacheRead |-> IF provider = "anthropic" THEN v ELSE 0,
                   Reasoning |-> IF provider = "anthropic" THEN 0 ELSE v,
                   Total |-> 15 * v + (IF provider = "anthropic" THEN 3 * v ELSE 0)]
    IN  [ID          |-> id,
         ProjectPath |-> <<"/home/p", v>>,
         Model       |-> <<"model", v>>,
         Provider    |-> provider,
         StartedAt   |-> TicksPerSecond * 100 * v + 1,
         EndedAt     |-> Some(IF v = 1 THEN ZeroTime
                              ELSE TicksPerSecond * (100 * v + 60) + 1),
         Tokens      |-> tokens,
         Cost        |-> CostUnits(tokens),
         Messages    |-> [i \in 1..n |-> Message(i)],
         ToolCalls   |-> [i \in 1..t |-> ToolCall(i)]]

\* Variant 1 has no tool call, variant 2 has MaxTools of them.
CodexSessions ==
    {ParsedSession(id, "openai", v, n, IF v = 1 THEN 0 ELSE MaxTools) :
        id \in ExternalIDs, v \in Variants, n \in 0..MaxMsgs}

\* A ClaudeSession has no tool calls (its ToolCalls is always empty here).
ClaudeSessions ==
    {ParsedSession(id, "anthropic", v, n, 0) :
        id \in ExternalIDs, v \in Variants, n \in 0..MaxMsgs}

-----------------------------------------------------------------------------
(* The store: db.go *)

EmptyDB == [sessions |-> <<>>, messages |-> <<>>, tool_calls |-> <<>>,
            metadata |-> [a \in Sources |-> Nil]]

\* Mutant: the lookup never finds the row (a query on the wrong column).
GetSessionByExternalID_Miss(d, externalID) == 0

\* SELECT ... FROM sessions WHERE external_id = ?: the row's id, 0 for no row.
GetSessionByExternalID(d, externalID) ==
    LET hits == {i \in DOMAIN d.sessions : d.sessions[i].ExternalID = externalID}
    IN  IF hits = {} THEN 0 ELSE CHOOSE i \in hits : \A j \in hits : i <= j

\* INSERT INTO sessions: external_id is UNIQUE, the id is the next rowid.
InsertSession(d, s) ==
    IF \E i \in DOMAIN d.sessions : d.sessions[i].ExternalID = s.ExternalID
    THEN [ok |-> FALSE, db |-> d, id |-> 0]
    ELSE [ok |-> TRUE,
          db |-> [d EXCEPT !.sessions = Append(@, s)],
          id |-> Len(d.sessions) + 1]

\* Mutant: the statement overwrites the newest row instead of adding one.
InsertMessage_Overwrite(d, m) ==
    [d EXCEPT !.messages = IF @ = <<>> THEN <<m>> ELSE [@ EXCEPT ![Len(@)] = m]]

\* INSERT INTO messages: the id is the next rowid.
InsertMessage(d, m) == [d EXCEPT !.messages = Append(@, m)]

\* INSERT INTO tool_calls
InsertToolCall(d, t) == [d EXCEPT !.tool_calls = Append(@, t)]

\* Mutant: the count is taken over another session's rows.
GetMessageCountBySessionID_WrongKey(d, sessionID) ==
    Cardinality({i \in DOMAIN d.messages : d.messages[i].SessionID = sessionID + 1})

\* SELECT COUNT(*) FROM messages WHERE session_id = ?
GetMessageCountBySessionID(d, sessionID) ==
    Cardinality({i \in DOMAIN d.messages : d.messages[i].SessionID = sessionID})

\* SELECT ... ORDER BY timestamp over the rows ids of a table: every list the
\* statement can return, a row with its columns and its rowid (ID). Rows of one
\* timestamp come in an order the statement does not fix.
RECURSIVE OrderByTimestamp(_, _)
OrderByTimestamp(table, ids) ==
    IF ids = {} THEN {<<>>}
    ELSE LET first == {i \in ids : \A j \in ids : table[i].Timestamp <= table[j].Timestamp}
             Scanned(i) == [c \in DOMAIN table[i] \cup {"ID"} |->
                               IF c = "ID" THEN i ELSE table[i][c]]
         IN  UNION {{<<Scanned(i)>> \o rest :
                        rest \in OrderByTimestamp(table, ids \ {i})} : i \in first}

\* GetMessagesBySessionID: SELECT ... FROM messages WHERE session_id = ?
\* ORDER BY timestamp; the lists the query can return.
MessagesOf(d, sessionID) ==
    OrderByTimestamp(d.messages,
                     {i \in DOMAIN d.messages : d.messages[i].SessionID = sessionID})

\* GetToolCallsBySessionID: SELECT ... FROM tool_calls WHERE session_id = ?
\* ORDER BY timestamp; the lists the query can return.
ToolCallsOf(d, sessionID) ==
    OrderByTimestamp(d.tool_calls,
                     {i \in DOMAIN d.tool_calls : d.tool_calls[i].SessionID = sessionID})

-----------------------------------------------------------------------------
(* The reconciler: sqlite.go *)

SessionRow(session, source) ==
    [ExternalID          |-> session.ID,
     Source              |-> source,
     ProjectPath         |-> session.ProjectPath,
     Model               |-> session.Model,
     Provider            |-> session.Provider,
     StartedAt           |-> Unix(session.StartedAt),
     EndedAt             |-> IF session.EndedAt = Nil THEN Nil
                             ELSE Some(Unix(session.EndedAt[1])),
     InputTokens         |-> session.Tokens.Input,
     OutputTokens        |-> session.Tokens.Output,
     CacheCreationTokens |-> session.Tokens.CacheCreation,
     CacheReadTokens     |-> session.Tokens.CacheRead,
     ReasoningTokens     |-> session.Tokens.Reasoning,
     TotalTokens         |-> session.Tokens.Total,
     Cost                |-> session.Cost]

\* Mutant: role and content bound to each other's column.
MessageRow_Swapped(sessionID, msg) ==
    [SessionID |-> sessionID, Role |-> msg.Content, Content |-> msg.Role,
     Timestamp |-> Unix(msg.Timestamp)]

MessageRow(sessionID, msg) ==
    [SessionID |-> sessionID, Role |-> msg.Role, Content |-> msg.Content,
     Timestamp |-> Unix(msg.Timestamp)]

ToolCallRow(sessionID, tc) ==
    [SessionID |-> sessionID, ToolName |-> tc.ToolName, Arguments |-> tc.Arguments,
     Result |-> tc.Result, Timestamp |-> Unix(tc.Timestamp)]

\* What a reconcile returns: nil, one of the two sentinel errors, or a wrapped
\* storage error.
ErrNil == "nil"
ErrSessionBackfilled == "ErrSessionBackfilled"
ErrSessionAlreadyTracked == "ErrSessionAlreadyTracked"
ErrStorage == "storage error"

\* A reconcile about to run its first storage operation.
StartW == [pc |-> "check", existing |-> 0, sessionID |-> 0, i |-> 1, err |-> ErrNil]

Return(w, err) == [w EXCEPT !.pc = "return", !.err = err]

\* After the session row is in: the messages, then the tool calls (Codex only).
AfterMessages(session, source, w) ==
    IF source = "codex" /\ Len(session.ToolCalls) > 0
    THEN [w EXCEPT !.pc = "tools", !.i = 1]
    ELSE Return(w, ErrNil)

AfterInsert(session, source, w) ==
    IF Len(session.Messages) > 0
    THEN [w EXCEPT !.pc = "messages", !.i = 1]
    ELSE AfterMessages(session, source, w)

\* One storage operation of TrackSession (source "codex") or TrackClaudeSession
\* (source "claude") and the control flow up to the next one; `fail` is the
\* storage layer returning an error for this operation.
TrackStep(d, session, source, w, fail) ==
    CASE w.pc = "check" ->
            IF fail THEN [db |-> d, w |-> Return(w, ErrStorage)]
            ELSE LET existing == GetSessionByExternalID(d, session.ID)
                 IN  IF existing # 0
                     THEN IF Len(session.Messages) > 0
                          THEN [db |-> d, w |-> [w EXCEPT !.pc = "count", !.existing = existing]]
                          ELSE [db |-> d, w |-> Return(w, ErrSessionAlreadyTracked)]
                     ELSE [db |-> d, w |-> [w EXCEPT !.pc = "insert"]]
      [] w.pc = "count" ->
            IF fail THEN [db |-> d, w |-> Return(w, ErrStorage)]
            ELSE IF GetMessageCountBySessionID(d, w.existing) = 0
                 THEN [db |-> d, w |-> [w EXCEPT !.pc = "backfill", !.i = 1]]
                 ELSE [db |-> d, w |-> Return(w, ErrSessionAlreadyTracked)]
      [] w.pc = "backfill" ->
            IF fail THEN [db |-> d, w |-> Return(w, ErrStorage)]
            ELSE [db |-> InsertMessage(d, MessageRow(w.existing, session.Messages[w.i])),
                  w  |-> IF w.i = Len(session.Messages)
                         THEN Return(w, ErrSessionBackfilled)
                         ELSE [w EXCEPT !.i = @ + 1]]
      [] w.pc = "insert" ->
            LET r == InsertSession(d, SessionRow(session, source))
            IN  IF fail \/ ~r.ok THEN [db |-> d, w |-> Return(w, ErrStorage)]
                ELSE [db |-> r.db,
                      w  |-> AfterInsert(session, source, [w EXCEPT !.sessionID = r.id])]
      [] w.pc = "messages" ->
            IF fail THEN [db |-> d, w |-> Return(w, ErrStorage)]
            ELSE [db |-> InsertMessage(d, MessageRow(w.sessionID, session.Messages[w.i])),
                  w  |-> IF w.i = Len(session.Messages)
                         THEN AfterMessages(session, source, w)
                         ELSE [w EXCEPT !.i = @ + 1]]
      [] w.pc = "tools" ->
            IF fail THEN [db |-> d, w |-> Return(w, ErrStorage)]
            ELSE [db |-> InsertToolCall(d, ToolCallRow(w.sessionID, session.ToolCalls[w.i])),
                  w  |-> IF w.i = Len(session.ToolCalls)
                         THEN Return(w, ErrNil)
                         ELSE [w EXCEPT !.i = @ + 1]]

\* A whole reconcile run alone: its storage operations in order, the failAt-th
\* of them failing (0: none fails). `ops` counts the operations already run;
\* the result tells whether the injected failure was hit.
RECURSIVE RunTrack(_, _, _, _, _, _)
RunTrack(d, session, source, w, ops, failAt) ==
    IF w.pc = "return"
    THEN [db |-> d, err |-> w.err, ops |-> ops, failed |-> failAt # 0 /\ failAt <= ops]
    ELSE LET r == TrackStep(d, session, source, w, ops + 1 = failAt)
         IN  RunTrack(r.db, session, source, r.w, ops + 1, failAt)

TrackSession(d, session, failAt) ==
    RunTrack(d, session, "codex", StartW, 0, failAt)

TrackClaudeSession(d, session, failAt) ==
    RunTrack(d, session, "claude", StartW, 0, failAt)

\* The outcome runSync tells apart with errors.Is.
Outcome(err) ==
    CASE err = ErrNil -> "Inserted"
      [] err = ErrSessionBackfilled -> "Backfilled"
      [] err = ErrSessionAlreadyTracked -> "AlreadyTracked"
      [] OTHER -> "Error"

\* Every reconcile call of the model: a parsed session and the method taking it.
Calls ==
    {[session |-> s, source |-> "codex"] : s \in CodexSessions}
        \cup {[session |-> s, source |-> "claude"] : s \in ClaudeSessions}

Track(d, c, failAt) ==
    IF c.source = "codex" THEN TrackSession(d, c.session, failAt)
    ELSE TrackClaudeSession(d, c.session, failAt)

-----------------------------------------------------------------------------
(* Idle values of the parts a specification does not exercise *)

NoCall == [called |-> FALSE, ID |-> "", source |-> "codex",
           err |-> ErrNil, failed |-> FALSE]

\* No file of the batch handled yet.
NoFile == [kind |-> "none", ID |-> "", err |-> ErrNil, failed |-> FALSE,
           shadowErr |-> ErrNil]

Outcomes == {"Inserted", "Backfilled", "AlreadyTracked", "Error"}

NoSync == [pc |-> "idle", agent |-> "codex", n |-> 0, i |-> 0,
           tracked |-> 0, skipped |-> 0, backfilled |-> 0,
           last |-> NoFile, tally |-> [o \in Outcomes |-> 0]]
NoShadow == [db |-> EmptyDB]
NoWorkers == <<>>
NoCodex == [pc |-> "idle"]
NoClaude == [pc |-> "idle"]
NoConfig == [pc |-> "idle"]

-----------------------------------------------------------------------------
(* Spec: sequential reconciles on one store *)

Init ==
    /\ db = EmptyDB
    /\ config = NoConfig
    /\ lastCall = NoCall
    /\ sync = NoSync
    /\ shadow = NoShadow
    /\ workers = NoWorkers
    /\ codex = NoCodex
    /\ claude = NoClaude

\* The record of a call: the id it was about, the method, what it returned and
\* whether a storage operation failed under it.
Called(c, r) ==
    [called |-> TRUE, ID |-> c.session.ID, source |-> c.source,
     err |-> r.err, failed |-> r.failed]

\* t.TrackSession(ctx, session) run to its return, its failAt-th storage
\* operation failing.
TrackSessionCall(session, failAt) ==
    LET r == TrackSession(db, session, failAt)
    IN  /\ db' = r.db
        /\ lastCall' = Called([session |-> session, source |-> "codex"], r)
        /\ UNCHANGED <<sync, shadow, workers, codex, claude, config>>

\* t.TrackClaudeSession(ctx, session) run to its return.
TrackClaudeSessionCall(session, failAt) ==
    LET r == TrackClaudeSession(db, session, failAt)
    IN  /\ db' = r.db
        /\ lastCall' = Called([session |-> session, source |-> "claude"], r)
        /\ UNCHANGED <<sync, shadow, workers, codex, claude, config>>

Next ==
    \/ \E session \in CodexSessions :
         \E failAt \in 0..TrackSession(db, session, 0).ops :
            TrackSessionCall(session, failAt)
    \/ \E session \in ClaudeSessions :
         \E failAt \in 0..TrackClaudeSession(db, session, 0).ops :
            TrackClaudeSessionCall(session, failAt)

Spec == Init /\ [][Next]_vars

-----------------------------------------------------------------------------
(* SpecRetry: a reconcile that failed is run again on the same parsed session *)

\* The record of a call with the session it was given, whether it wrote the
\* session row, and whether it is the first attempt or the run after a failure.
Attempted(c, r, wrote, attempt) ==
    [called |-> TRUE, ID |-> c.session.ID, source |-> c.source, err |-> r.err,
     failed |-> r.failed, session |-> c.session, wrote |-> wrote, attempt |-> attempt]

\* A command reconciles a parsed session, the failAt-th storage operation
\* failing.
ReconcileCall(c, failAt) ==
    LET r == Track(db, c, failAt)
        wrote == /\ GetSessionByExternalID(db, c.session.ID) = 0
                 /\ GetSessionByExternalID(r.db, c.session.ID) # 0
    IN  /\ db' = r.db
        /\ lastCall' = Attempted(c, r, wrote, 1)
        /\ UNCHANGED <<sync, shadow, workers, codex, claude, config>>

\* The next command reconciles the same parsed session again, the storage
\* healthy, after an attempt that wrote the session row and then failed.
RetryCall ==
    /\ lastCall.called
    /\ lastCall.attempt = 1
    /\ lastCall.failed
    /\ lastCall.wrote
    /\ LET c == [session |-> lastCall.session, source |-> lastCall.source]
           r == Track(db, c, 0)
       IN  /\ db' = r.db
           /\ lastCall' = Attempted(c, r, FALSE, 2)
    /\ UNCHANGED <<sync, shadow, workers, codex, claude, config>>

NextRetry ==
    \/ \E c \in Calls : \E failAt \in 0..Track(db, c, 0).ops : ReconcileCall(c, failAt)
    \/ RetryCall

SpecRetry == Init /\ [][NextRetry]_vars

-----------------------------------------------------------------------------
(* SpecSync: runSync, cmd/root.go *)

\* What parseFunc returns for a session file of the agent: an error (the file
\* cannot be read) or a parsed session.
SessionFiles(agentName) ==
    {[err |-> TRUE, session |-> ParsedSession("", "openai", 1, 0, 0)]}
        \cup {[err |-> FALSE, session |-> c.session] :
                c \in {x \in Calls : x.source = agentName}}

\* The counters after trackFunc returned err: tracked, backfilled, skipped.
CountOutcome(s, err) ==
    IF err # ErrNil
    THEN IF err = ErrSessionBackfilled
         THEN [s EXCEPT !.backfilled = @ + 1]
         ELSE IF err = ErrSessionAlreadyTracked
              THEN [s EXCEPT !.skipped = @ + 1]
              ELSE [s EXCEPT !.skipped = @ + 1]
    ELSE [s EXCEPT !.tracked = @ + 1]

\* INSERT OR REPLACE INTO metadata: the key last_sync_<agent>.
SetLastSyncTime(d, agent, timestamp) ==
    [d EXCEPT !.metadata[agent] = Some(timestamp)]

\* SELECT value FROM metadata WHERE key = last_sync_<agent>; 0 for no row.
GetLastSyncTime(d, agent) ==
    IF d.metadata[agent] = Nil THEN 0 ELSE d.metadata[agent][1]

\* runSync(agentName) up to its loop: the walk found n session files. With no
\* file it returns at once. One command runs runSync for one agent (usage) or
\* for codex and then claude (runSyncAll).
StartSync(agentName, n) ==
    /\ \/ sync.pc = "idle"
       \/ sync.pc = "done" /\ sync.agent = "codex" /\ agentName = "claude"
    /\ sync' = [NoSync EXCEPT !.pc = IF n = 0 THEN "done" ELSE "loop",
                              !.agent = agentName, !.n = n, !.i = 1]
    /\ shadow' = [db |-> db]
    /\ UNCHANGED <<db, lastCall, workers, codex, claude, config>>

\* One iteration of the loop: parse the next file and reconcile it, the
\* failAt-th storage operation failing. `last` and `tally` record what happened
\* to the file; `shadow` is the store of the same batch without the files that
\* failed, reconciled with the storage healthy.
SyncFile(file, failAt) ==
    /\ sync.pc = "loop"
    /\ sync.i <= sync.n
    /\ IF file.err
       THEN /\ sync' = [sync EXCEPT !.i = @ + 1,
                                    !.last = [NoFile EXCEPT !.kind = "unreadable"]]
            /\ UNCHANGED <<db, shadow>>
       ELSE LET c == [session |-> file.session, source |-> sync.agent]
                r == Track(db, c, failAt)
                g == Track(shadow.db, c, 0)
            IN  /\ db' = r.db
                /\ shadow' = IF r.failed THEN shadow ELSE [db |-> g.db]
                /\ sync' = CountOutcome(
                              [sync EXCEPT !.i = @ + 1,
                                           !.last = [kind |-> "reconciled",
                                                     ID |-> file.session.ID,
                                                     err |-> r.err,
                                                     failed |-> r.failed,
                                                     shadowErr |-> g.err],
                                           !.tally[Outcome(r.err)] = @ + 1],
                              r.err)
    /\ UNCHANGED <<lastCall, workers, codex, claude, config>>

\* Mutant: the last sync time is saved whatever the counters are.
FinishSync_Always(now) ==
    /\ sync.pc = "loop"
    /\ sync.i > sync.n
    /\ \A a \in Sources : GetLastSyncTime(db, a) <= now
    /\ db' = SetLastSyncTime(db, sync.agent, now)
    /\ sync' = [sync EXCEPT !.pc = "done"]
    /\ shadow' = NoShadow
    /\ UNCHANGED <<lastCall, workers, codex, claude, config>>

\* After the loop: the last sync time is saved when a counter is positive.
\* time.Now() is any instant not before the stamps already saved.
FinishSync(now) ==
    /\ sync.pc = "loop"
    /\ sync.i > sync.n
    /\ \A a \in Sources : GetLastSyncTime(db, a) <= now
    /\ db' = IF sync.tracked > 0 \/ sync.skipped > 0 \/ sync.backfilled > 0
             THEN SetLastSyncTime(db, sync.agent, now)
             ELSE db
    /\ sync' = [sync EXCEPT !.pc = "done"]
    /\ shadow' = NoShadow
    /\ UNCHANGED <<lastCall, workers, codex, claude, config>>

\* GetUsageStatsAll's LastSyncTime: the loop over the agents keeps the
\* greatest of their last sync times, from 0.
LastSyncTimeAll(d) ==
    LET codexTime == GetLastSyncTime(d, "codex")
        afterCodex == IF codexTime > 0 THEN codexTime ELSE 0
        claudeTime == GetLastSyncTime(d, "claude")
    IN  IF claudeTime > afterCodex THEN claudeTime ELSE afterCodex

NextSync ==
    \/ \E agentName \in Sources, n \in 0..MaxFiles : StartSync(agentName, n)
    \/ \E file \in SessionFiles(sync.agent) :
         \E failAt \in 0..Track(db, [session |-> file.session, source |-> sync.agent], 0).ops :
            SyncFile(file, failAt)
    \/ \E now \in 1..MaxNow : FinishSync(now)

SpecSync == Init /\ [][NextSync]_vars

\* SpecSyncAll: the same command on a store that is healthy or fails at the
\* first storage operation of a reconcile, so that no reconcile stops halfway.
NextSyncAll ==
    \/ \E agentName \in Sources, n \in 0..MaxFiles : StartSync(agentName, n)
    \/ \E file \in SessionFiles(sync.agent), failAt \in {0, 1} : SyncFile(file, failAt)
    \/ \E now \in 1..MaxNow : FinishSync(now)

SpecSyncAll == Init /\ [][NextSyncAll]_vars

-----------------------------------------------------------------------------
(* SpecRace: two reconciles on one store, their storage operations interleaved *)

\* Two command processes share the store file; each runs its reconcile one
\* storage operation at a time. No transaction spans the operations of a call.
WorkerIDs == {1, 2}

\* A reconcile in progress: the call, its position, and whether its INSERT INTO
\* sessions was rejected by the UNIQUE constraint on external_id.
Worker(c) == [session |-> c.session, source |-> c.source, w |-> StartW, lost |-> FALSE]

\* Both processes enter TrackSession / TrackClaudeSession.
RaceStart(c1, c2) ==
    /\ workers = NoWorkers
    /\ workers' = <<Worker(c1), Worker(c2)>>
    /\ UNCHANGED <<db, lastCall, sync, shadow, codex, claude, config>>

\* Process k runs its next storage operation, the storage healthy.
RaceStep(k) ==
    /\ workers # NoWorkers
    /\ workers[k].w.pc # "return"
    /\ LET me == workers[k]
           r  == TrackStep(db, me.session, me.source, me.w, FALSE)
           rejected == /\ me.w.pc = "insert"
                       /\ ~InsertSession(db, SessionRow(me.session, me.source)).ok
       IN  /\ db' = r.db
           /\ workers' = [workers EXCEPT ![k] = [me EXCEPT !.w = r.w,
                                                         !.lost = @ \/ rejected]]
    /\ UNCHANGED <<lastCall, sync, shadow, codex, claude, config>>

NextRace ==
    \/ \E c1 \in Calls, c2 \in Calls : RaceStart(c1, c2)
    \/ \E k \in WorkerIDs : RaceStep(k)

SpecRace == Init /\ [][NextRace]_vars

-----------------------------------------------------------------------------
(* SpecCodex: ParseCodexSession, internal/tracker/codex_parser.go *)

\* A timestamp string: written with a fraction of a second (RFC3339Nano), to
\* the second (RFC3339), or not a timestamp at all.
TsNano(k) == [layout |-> "nano", t |-> TicksPerSecond * k + 1]
TsSec(k) == [layout |-> "sec", t |-> TicksPerSecond * k]
TsBad == [layout |-> "bad", t |-> ZeroTime]

\* time.Parse with RFC3339Nano, then RFC3339; the zero time when both fail.
ParseTimestamp(str) ==
    IF str.layout = "nano" \/ str.layout = "sec" THEN str.t ELSE ZeroTime

\* The payload object of a Codex line; a key is absent (Nil) or holds a value.
\* A value of another JSON type than the parser expects fails a type assertion
\* on the decoded map, which reads the key as absent (Nil), and fails the
\* decode into a typed struct: `mistyped` holds the keys with such a value.
NoPayload == [id |-> Nil, cwd |-> Nil, model_provider |-> Nil, originator |-> Nil,
              timestamp |-> Nil, model |-> Nil, type |-> Nil, role |-> Nil,
              content |-> <<>>, name |-> Nil, input |-> Nil, usage |-> Nil,
              mistyped |-> {}]

NoUsage == [input_tokens |-> Nil, cached_input_tokens |-> Nil, output_tokens |-> Nil,
            reasoning_output_tokens |-> Nil, total_tokens |-> Nil]

\* A line of the file: blank, not a JSON object of the jsonlEntry shape, or an
\* entry with type, timestamp and payload (Nil: no payload object).
BlankLine == [kind |-> "blank", Type |-> "", Timestamp |-> TsBad, Payload |-> Nil]
MalformedLine == [kind |-> "malformed", Type |-> "", Timestamp |-> TsBad, Payload |-> Nil]
Entry(type, ts, payload) ==
    [kind |-> "entry", Type |-> type, Timestamp |-> ts, Payload |-> payload]

\* An item of a message's content array is typed when its type and text are
\* JSON strings.
CodexLines ==
    LET ContentItem(type, text) == [type |-> type, text |-> text, typed |-> TRUE]
        MistypedItem(type) == [type |-> type, text |-> "", typed |-> FALSE]
    IN
    { BlankLine,
      MalformedLine,
      Entry("session_meta", TsNano(10),
            Some([NoPayload EXCEPT !.id = Some("s1"), !.cwd = Some("/home/p"),
                                   !.model_provider = Some("openai"),
                                   !.originator = Some("A"),
                                   !.timestamp = Some(TsSec(9))])),
      Entry("session_meta", TsBad,
            Some([NoPayload EXCEPT !.id = Some("s2"), !.originator = Some("D")])),
      Entry("turn_context", TsSec(20), Some([NoPayload EXCEPT !.model = Some("B")])),
      Entry("turn_context", TsNano(5), Some([NoPayload EXCEPT !.model = Some("C")])),
      Entry("turn_context", TsSec(30), Some(NoPayload)),
      Entry("response_item", TsNano(40),
            Some([NoPayload EXCEPT !.type = Some("message"), !.role = Some("user"),
                    !.content = <<ContentItem("input_text", "World")>>])),
      Entry("response_item", TsSec(45),
            Some([NoPayload EXCEPT !.type = Some("message"), !.role = Some("developer"),
                    !.content = <<ContentItem("input_text", "Hello")>>])),
      Entry("response_item", TsSec(50),
            Some([NoPayload EXCEPT !.type = Some("message"), !.role = Some("assistant"),
                    !.content = <<ContentItem("output_text", "Response"),
                                  ContentItem("refusal", "no"),
                                  ContentItem("output_text", " text")>>])),
      Entry("response_item", TsSec(52),
            Some([NoPayload EXCEPT !.type = Some("message"), !.mistyped = {"role"},
                    !.content = <<ContentItem("input_text", "World")>>])),
      Entry("response_item", TsSec(54),
            Some([NoPayload EXCEPT !.type = Some("message"), !.role = Some("user"),
                    !.content = <<ContentItem("input_text", "World"),
                                  MistypedItem("input_text")>>])),
      Entry("event_msg", TsNano(60),
            Some([NoPayload EXCEPT !.type = Some("token_count"),
                    !.usage = Some([input_tokens |-> Some(10), cached_input_tokens |-> Some(4),
                                    output_tokens |-> Some(5),
                                    reasoning_output_tokens |-> Some(1),
                                    total_tokens |-> Some(15)])])),
      Entry("event_msg", TsSec(70),
            Some([NoPayload EXCEPT !.type = Some("token_count"),
                    !.usage = Some([NoUsage EXCEPT !.input_tokens = Some(7)])])),
      Entry("event_msg", TsSec(75),
            Some([NoPayload EXCEPT !.type = Some("token_count"),
                    !.usage = Some([NoUsage EXCEPT !.cached_input_tokens = Some(3),
                                                   !.reasoning_output_tokens = Some(2),
                                                   !.total_tokens = Some(0)])])),
      Entry("event_msg", TsSec(80),
            Some([NoPayload EXCEPT !.type = Some("tool_use"), !.name = Some("read_file"),
                                   !.input = Some("{}")])),
      Entry("compacted", TsSec(2), Nil) }

\* splitLines of the file's bytes: every file of at most MaxLines lines.
CodexFiles == UNION {[1..n -> CodexLines] : n \in 0..MaxLines}

\* &CodexSession{Messages: [], ToolCalls: []}: the other fields are zero values.
NewCodexSession ==
    [ID |-> "", ProjectPath |-> "", Model |-> "", Provider |-> "",
     StartedAt |-> ZeroTime, EndedAt |-> Nil,
     Tokens |-> [Input |-> 0, Output |-> 0, Cached |-> 0, Reasoning |-> 0, Total |-> 0],
     Cost |-> 0, Messages |-> <<>>, ToolCalls |-> <<>>]

\* if v, ok := payload[key].(T); ok { field = v }
SetIfPresent(field, value) == IF value # Nil THEN value[1] ELSE field

RECURSIVE extractMessageContent(_)
extractMessageContent(content) ==
    IF content = <<>> THEN ""
    ELSE LET c == content[Len(content)]
             front == extractMessageContent(SubSeq(content, 1, Len(content) - 1))
         IN  IF c.type = "output_text" \/ c.type = "input_text"
             THEN front \o c.text
             ELSE front

\* Cost in units of 10^-8 dollar: $3 per million input, $15 per million output.
CodexCost(tokens) == 300 * tokens.Input + 1500 * tokens.Output

\* Mutant: only the role user counts as input.
RECURSIVE CharsOf_UserOnly(_, _)
CharsOf_UserOnly(messages, input) ==
    IF messages = <<>> THEN 0
    ELSE LET msg == messages[1]
             isInput == msg.Role = "user"
         IN  (IF isInput = input THEN Len(msg.Content) ELSE 0)
                + CharsOf_UserOnly(Tail(messages), input)

\* The content lengths of the input messages (roles developer and user) or of
\* the other messages, summed.
RECURSIVE CharsOf(_, _)
CharsOf(messages, input) ==
    IF messages = <<>> THEN 0
    ELSE LET msg == messages[1]
             isInput == msg.Role = "developer" \/ msg.Role = "user"
         IN  (IF isInput = input THEN Len(msg.Content) ELSE 0)
                + CharsOf(Tail(messages), input)

\* estimateTokens: four characters a token, from the message contents.
estimateTokens(session) ==
    LET in == CharsOf(session.Messages, TRUE) \div 4
        out == CharsOf(session.Messages, FALSE) \div 4
        tokens == [session.Tokens EXCEPT !.Input = in, !.Output = out, !.Total = in + out]
    IN  [session EXCEPT !.Tokens = tokens, !.Cost = CodexCost(tokens)]

\* case "session_meta"
CodexSessionMeta(session, payload) ==
    [session EXCEPT !.ID = SetIfPresent(@, payload.id),
                    !.ProjectPath = SetIfPresent(@, payload.cwd),
                    !.Provider = SetIfPresent(@, payload.model_provider),
                    !.Model = SetIfPresent(@, payload.originator),
                    !.StartedAt = IF payload.timestamp # Nil
                                  THEN ParseTimestamp(payload.timestamp[1])
                                  ELSE @]

\* case "turn_context"
CodexTurnContext(session, payload) ==
    [session EXCEPT !.Model = SetIfPresent(@, payload.model)]

\* case "response_item". json.Unmarshal(entry.Payload, &msg) into
\* responseMessage returns no error when type and role are strings and content
\* is an array of items whose type and text are strings.
CodexResponseItem(session, payload, ts) ==
    LET content == extractMessageContent(payload.content)
        unmarshals == /\ payload.mistyped \cap {"type", "role", "content"} = {}
                      /\ \A i \in DOMAIN payload.content : payload.content[i].typed
    IN  IF /\ unmarshals
           /\ payload.type = Some("message")
           /\ content # ""
        THEN [session EXCEPT !.Messages =
                 Append(@, [Role |-> SetIfPresent("", payload.role),
                            Content |-> content, Timestamp |-> ts])]
        ELSE session

\* case "event_msg": tool_use appends a call, token_count overwrites the
\* token fields its usage object carries.
CodexEventMsg(session, payload, ts) ==
    IF payload.type = Some("tool_use")
    THEN [session EXCEPT !.ToolCalls =
             Append(@, [ToolName |-> SetIfPresent("", payload.name),
                        Arguments |-> SetIfPresent("null", payload.input),
                        Result |-> "", Timestamp |-> ts])]
    ELSE IF payload.type = Some("token_count") /\ payload.usage # Nil
         THEN LET usage == payload.usage[1]
              IN  [session EXCEPT
                     !.Tokens.Input = SetIfPresent(@, usage.input_tokens),
                     !.Tokens.Cached = SetIfPresent(@, usage.cached_input_tokens),
                     !.Tokens.Output = SetIfPresent(@, usage.output_tokens),
                     !.Tokens.Reasoning = SetIfPresent(@, usage.reasoning_output_tokens),
                     !.Tokens.Total = SetIfPresent(@, usage.total_tokens)]
         ELSE session

\* Mutant: a line that fails to decode is handled as an entry without fields.
Decoded_Malformed(line) == line.kind # "blank"

\* The line is not empty and json.Unmarshal of it returned no error.
Decoded(line) == line.kind = "entry"

\* The body of the loop for one line, st the parser's locals.
ParseCodexLine(st, line) ==
    IF ~Decoded(line) THEN st
    ELSE LET ts == ParseTimestamp(line.Timestamp)
             session ==
                IF line.Payload = Nil THEN st.session
                ELSE CASE line.Type = "session_meta" ->
                            CodexSessionMeta(st.session, line.Payload[1])
                       [] line.Type = "turn_context" ->
                            CodexTurnContext(st.session, line.Payload[1])
                       [] line.Type = "response_item" ->
                            CodexResponseItem(st.session, line.Payload[1], ts)
                       [] line.Type = "event_msg" ->
                            CodexEventMsg(st.session, line.Payload[1], ts)
                       [] OTHER -> st.session
         IN  [st EXCEPT !.firstTimestamp = IF @ = ZeroTime THEN ts ELSE @,
                        !.lastTimestamp = ts,
                        !.session = session]

\* Mutant: the start a session_meta payload gave is kept.
FinishCodexSession_MetaStart(st) ==
    LET session == [st.session EXCEPT !.StartedAt = IF @ = ZeroTime
                                                     THEN st.firstTimestamp ELSE @,
                                      !.EndedAt = Some(st.lastTimestamp)]
    IN  IF session.Tokens.Total = 0
        THEN estimateTokens(session)
        ELSE [session EXCEPT !.Cost = CodexCost(session.Tokens)]

\* After the loop: the span, then the estimate or the cost.
FinishCodexSession(st) ==
    LET session == [st.session EXCEPT !.StartedAt = st.firstTimestamp,
                                      !.EndedAt = Some(st.lastTimestamp)]
    IN  IF session.Tokens.Total = 0
        THEN estimateTokens(session)
        ELSE [session EXCEPT !.Cost = CodexCost(session.Tokens)]

\* Mutant: the span starts at an instant of the clock, not at the zero time.
StartCodex_Stamped(lines) ==
    [pc |-> "loop", lines |-> lines, i |-> 1, session |-> NewCodexSession,
     firstTimestamp |-> TicksPerSecond, lastTimestamp |-> TicksPerSecond]

\* The parser's locals before the loop.
StartCodex(lines) ==
    [pc |-> "loop", lines |-> lines, i |-> 1, session |-> NewCodexSession,
     firstTimestamp |-> ZeroTime, lastTimestamp |-> ZeroTime]

\* The loop over the lines from the i-th on.
RECURSIVE CodexLoop(_, _)
CodexLoop(st, i) ==
    IF i > Len(st.lines) THEN st
    ELSE CodexLoop(ParseCodexLine(st, st.lines[i]), i + 1)

\* ParseCodexSession on a file of these lines: the session it returns.
ParseCodexSession(lines) == FinishCodexSession(CodexLoop(StartCodex(lines), 1))

\* ParseCodexSession(path) about to enter its loop over the lines of the file.
InitCodex ==
    /\ db = EmptyDB
    /\ config = NoConfig
    /\ lastCall = NoCall
    /\ sync = NoSync
    /\ shadow = NoShadow
    /\ workers = NoWorkers
    /\ claude = NoClaude
    /\ \E lines \in CodexFiles : codex = StartCodex(lines)

CodexLine ==
    /\ codex.pc = "loop"
    /\ codex.i <= Len(codex.lines)
    /\ codex' = [ParseCodexLine(codex, codex.lines[codex.i]) EXCEPT !.i = @ + 1]
    /\ UNCHANGED <<db, lastCall, sync, shadow, workers, claude, config>>

CodexReturn ==
    /\ codex.pc = "loop"
    /\ codex.i > Len(codex.lines)
    /\ codex' = [codex EXCEPT !.pc = "done", !.session = FinishCodexSession(codex)]
    /\ UNCHANGED <<db, lastCall, sync, shadow, workers, claude, config>>

NextCodex == CodexLine \/ CodexReturn

SpecCodex == InitCodex /\ [][NextCodex]_vars

-----------------------------------------------------------------------------
(* SpecClaude: ParseClaudeSession, internal/tracker/codex_parser.go *)

\* The raw JSON of a content key: absent, null, a string, an array of items,
\* an object with optional text and content strings, or any other JSON.
NoContent == [kind |-> "absent", str |-> "", items |-> <<>>, text |-> Nil, content |-> Nil]
StringContent(str) == [NoContent EXCEPT !.kind = "string", !.str = str]
ItemsContent(items) == [NoContent EXCEPT !.kind = "items", !.items = items]
ObjectContent(text, content) ==
    [NoContent EXCEPT !.kind = "object", !.text = text, !.content = content]

\* An item of a content array; a missing string key decodes to "".
Item(type) == [Type |-> type, Text |-> "", Thinking |-> "", Name |-> "", Content |-> ""]

\* A line decoded into claudeEntry; a missing string key decodes to "", a
\* missing message to nil. Blank and malformed lines carry no entry.
NoClaudeEntry ==
    [kind |-> "entry", Type |-> "", Timestamp |-> TsBad, SessionID |-> "",
     SessionID2 |-> "", Cwd |-> "", Project |-> "", Model |-> "", Message |-> Nil,
     Input |-> "", Role |-> "", Content |-> NoContent]

NoClaudeMessage == [Model |-> "", Role |-> "", Usage |-> Nil, Content |-> NoContent]

ClaudeLines ==
    { [NoClaudeEntry EXCEPT !.kind = "blank"],
      [NoClaudeEntry EXCEPT !.kind = "malformed"],
      [NoClaudeEntry EXCEPT !.Type = "user", !.Timestamp = TsNano(10),
          !.SessionID = "A", !.Cwd = "/x",
          !.Message = Some([NoClaudeMessage EXCEPT !.Role = "user",
                               !.Content = StringContent("hi there")])],
      [NoClaudeEntry EXCEPT !.Type = "assistant", !.Timestamp = TsSec(20),
          !.SessionID = "B", !.Cwd = "/y",
          !.Message = Some([NoClaudeMessage EXCEPT !.Model = "claude-m",
                               !.Role = "assistant",
                               !.Usage = Some([InputTokens |-> 1000, OutputTokens |-> 500,
                                               CacheCreationInputTokens |-> 200,
                                               CacheReadInputTokens |-> 100]),
                               !.Content = ItemsContent(
                                   <<[Item("text") EXCEPT !.Text = "ok"],
                                     [Item("tool_use") EXCEPT !.Name = "Read"]>>)])],
      [NoClaudeEntry EXCEPT !.Type = "user", !.SessionID2 = "C", !.Project = "/z",
          !.Input = "legacy"],
      [NoClaudeEntry EXCEPT !.Type = "summary", !.Timestamp = TsNano(5),
          !.SessionID = "B", !.SessionID2 = "C", !.Cwd = "/y", !.Project = "/z",
          !.Model = "m0", !.Role = "assistant",
          !.Content = ObjectContent(Some("sum"), Nil)],
      [NoClaudeEntry EXCEPT !.Type = "system", !.Timestamp = TsSec(30)],
      [NoClaudeEntry EXCEPT !.Type = "system", !.Timestamp = TsSec(35),
          !.Message = Some([NoClaudeMessage EXCEPT !.Role = "assistant",
                               !.Usage = Some([InputTokens |-> 7, OutputTokens |-> 8,
                                               CacheCreationInputTokens |-> 1,
                                               CacheReadInputTokens |-> 2]),
                               !.Content = StringContent("sys")])],
      [NoClaudeEntry EXCEPT !.Type = "assistant", !.Timestamp = TsSec(40),
          !.Message = Some([NoClaudeMessage EXCEPT
                               !.Usage = Some([InputTokens |-> 3, OutputTokens |-> 4,
                                               CacheCreationInputTokens |-> 0,
                                               CacheReadInputTokens |-> 0])])],
      [NoClaudeEntry EXCEPT !.Type = "user", !.Timestamp = TsSec(50), !.Project = "/w",
          !.Content = ItemsContent(<<Item("tool_result"),
                                     [Item("thinking") EXCEPT !.Thinking = "hm"]>>)] }

ClaudeFiles == UNION {[1..n -> ClaudeLines] : n \in 0..MaxLines}

\* &ClaudeSession{Provider: "anthropic", Messages: []}
NewClaudeSession ==
    [ID |-> "", ProjectPath |-> "", Model |-> "", Provider |-> "anthropic",
     StartedAt |-> ZeroTime, EndedAt |-> Nil,
     Tokens |-> [Input |-> 0, Output |-> 0, CacheCreation |-> 0, CacheRead |-> 0,
                 Total |-> 0],
     Cost |-> 0, Messages |-> <<>>]

\* The parts one item of a content array adds.
ItemParts(item) ==
    CASE item.Type = "text" -> IF item.Text # "" THEN <<item.Text>> ELSE <<>>
      [] item.Type = "thinking" -> IF item.Thinking # "" THEN <<item.Thinking>> ELSE <<>>
      [] item.Type = "tool_use" ->
            IF item.Name # "" THEN <<"[tool_use:" \o item.Name \o "]">>
            ELSE <<"[tool_use]">>
      [] item.Type = "tool_result" ->
            IF item.Content # "" THEN <<item.Content>> ELSE <<"[tool_result]">>
      [] OTHER -> (IF item.Text # "" THEN <<item.Text>> ELSE <<>>)
                     \o (IF item.Content # "" THEN <<item.Content>> ELSE <<>>)

RECURSIVE PartsOf(_)
PartsOf(items) ==
    IF items = <<>> THEN <<>> ELSE ItemParts(items[1]) \o PartsOf(Tail(items))

\* strings.Join(parts, "\n")
RECURSIVE Join(_)
Join(parts) ==
    IF parts = <<>> THEN ""
    ELSE IF Len(parts) = 1 THEN parts[1]
         ELSE parts[1] \o "\n" \o Join(Tail(parts))

extractClaudeMessageContent(raw) ==
    CASE raw.kind = "string" -> raw.str
      [] raw.kind = "items" -> Join(PartsOf(raw.items))
      [] raw.kind = "object" ->
            IF raw.text # Nil THEN raw.text[1]
            ELSE IF raw.content # Nil THEN raw.content[1] ELSE ""
      [] OTHER -> ""

\* sessionId, else the session_id alias.
EntrySessionID(entry) ==
    IF entry.SessionID = "" THEN entry.SessionID2 ELSE entry.SessionID

\* cwd, else project_path.
EntryProject(entry) ==
    IF entry.Cwd = "" THEN entry.Project ELSE entry.Cwd

\* Mutant: a later record overwrites the field.
FirstNonEmpty_LastWins(field, value) ==
    IF value # "" THEN value ELSE field

\* if field == "" && value != "" { field = value }
FirstNonEmpty(field, value) ==
    IF field = "" /\ value # "" THEN value ELSE field

\* Mutant: the usage of a record replaces the running counts.
AddUsage_Overwrite(tokens, usage) ==
    [tokens EXCEPT !.Input = usage.InputTokens,
                   !.Output = usage.OutputTokens,
                   !.CacheCreation = usage.CacheCreationInputTokens,
                   !.CacheRead = usage.CacheReadInputTokens]

\* session.Tokens.X += entry.Message.Usage.X, for the four counts.
AddUsage(tokens, usage) ==
    [tokens EXCEPT !.Input = @ + usage.InputTokens,
                   !.Output = @ + usage.OutputTokens,
                   !.CacheCreation = @ + usage.CacheCreationInputTokens,
                   !.CacheRead = @ + usage.CacheReadInputTokens]

\* The message appended for the entry, if any: the switch on entry.Type.
ClaudeAppend(messages, entry, messageContent, messageRole, ts) ==
    LET add(role, content) ==
            Append(messages, [Role |-> role, Content |-> content, Timestamp |-> ts])
    IN  CASE entry.Type = "user" ->
                IF entry.Input # "" THEN add("user", entry.Input)
                ELSE IF messageContent # ""
                     THEN add(IF messageRole = "" THEN "user" ELSE messageRole,
                              messageContent)
                     ELSE messages
          [] entry.Type = "assistant" ->
                IF messageContent # ""
                THEN add(IF messageRole = "" THEN "assistant" ELSE messageRole,
                         messageContent)
                ELSE messages
          [] entry.Type = "system" -> messages
          [] OTHER ->
                IF messageContent # "" /\ messageRole # ""
                THEN add(messageRole, messageContent)
                ELSE messages

\* The body of the loop for one line, st the parser's locals.
ParseClaudeLine(st, entry) ==
    IF ~Decoded(entry) THEN st
    ELSE LET ts == ParseTimestamp(entry.Timestamp)
             s == st.session
             hasMessage == entry.Message # Nil
             message == IF hasMessage THEN entry.Message[1] ELSE NoClaudeMessage
             messageContent ==
                IF hasMessage THEN extractClaudeMessageContent(message.Content)
                ELSE extractClaudeMessageContent(entry.Content)
             messageRole == IF hasMessage THEN message.Role ELSE entry.Role
             model0 == FirstNonEmpty(s.Model, entry.Model)
             model == IF hasMessage /\ message.Model # "" THEN message.Model ELSE model0
             tokens ==
                IF hasMessage /\ message.Usage # Nil
                THEN AddUsage(s.Tokens, message.Usage[1])
                ELSE s.Tokens
         IN  [st EXCEPT
                !.firstTimestamp = IF @ = ZeroTime THEN ts ELSE @,
                !.lastTimestamp = IF ts # ZeroTime THEN ts ELSE @,
                !.session =
                    [s EXCEPT !.ID = FirstNonEmpty(@, EntrySessionID(entry)),
                              !.ProjectPath = FirstNonEmpty(@, EntryProject(entry)),
                              !.Model = model,
                              !.Tokens = tokens,
                              !.Messages = ClaudeAppend(@, entry, messageContent,
                                                        messageRole, ts)]]

\* After the loop: the span, the total and the cost.
FinishClaudeSession(st) ==
    LET t == st.session.Tokens
        tokens == [t EXCEPT !.Total = t.Input + t.Output + t.CacheCreation + t.CacheRead]
    IN  [st.session EXCEPT !.StartedAt = st.firstTimestamp,
                           !.EndedAt = Some(st.lastTimestamp),
                           !.Tokens = tokens,
                           !.Cost = CostUnits(tokens)]

\* The parser's locals before the loop.
StartClaude(lines) ==
    [pc |-> "loop", lines |-> lines, i |-> 1, session |-> NewClaudeSession,
     firstTimestamp |-> ZeroTime, lastTimestamp |-> ZeroTime]

\* The loop over the lines from the i-th on.
RECURSIVE ClaudeLoop(_, _)
ClaudeLoop(st, i) ==
    IF i > Len(st.lines) THEN st
    ELSE ClaudeLoop(ParseClaudeLine(st, st.lines[i]), i + 1)

\* ParseClaudeSession on a file of these lines: the session it returns.
ParseClaudeSession(lines) == FinishClaudeSession(ClaudeLoop(StartClaude(lines), 1))

\* ParseClaudeSession(path) about to enter its loop over the lines of the file.
InitClaude ==
    /\ db = EmptyDB
    /\ config = NoConfig
    /\ lastCall = NoCall
    /\ sync = NoSync
    /\ shadow = NoShadow
    /\ workers = NoWorkers
    /\ codex = NoCodex
    /\ \E lines \in ClaudeFiles : claude = StartClaude(lines)

ClaudeLine ==
    /\ claude.pc = "loop"
    /\ claude.i <= Len(claude.lines)
    /\ claude' = [ParseClaudeLine(claude, claude.lines[claude.i]) EXCEPT !.i = @ + 1]
    /\ UNCHANGED <<db, lastCall, sync, shadow, workers, codex, config>>

ClaudeReturn ==
    /\ claude.pc = "loop"
    /\ claude.i > Len(claude.lines)
    /\ claude' = [claude EXCEPT !.pc = "done", !.session = FinishClaudeSession(claude)]
    /\ UNCHANGED <<db, lastCall, sync, shadow, workers, codex, config>>

NextClaude == ClaudeLine \/ ClaudeReturn

SpecClaude == InitClaude /\ [][NextClaude]_vars

-----------------------------------------------------------------------------
(* SpecParsers: either parser over every bounded file *)

InitParsers == InitCodex \/ InitClaude

NextParsers == NextCodex \/ NextClaude

SpecParsers == InitParsers /\ [][NextParsers]_vars

-----------------------------------------------------------------------------
(* SpecStats: the aggregation queries of db.go over the stores InsertSession fills *)

SecondsPerDay == 86400

\* A sessions row as DB.InsertSession receives it.
StatRow(id, source, model, startedAt, endedAt, v) ==
    [ExternalID          |-> id,
     Source              |-> source,
     ProjectPath         |-> IF v = 1 THEN "" ELSE "/home/p",
     Model               |-> model,
     Provider            |-> IF source = "codex" THEN "openai" ELSE "anthropic",
     StartedAt           |-> startedAt,
     EndedAt             |-> endedAt,
     InputTokens         |-> 10 * v,
     OutputTokens        |-> 5 * v,
     CacheCreationTokens |-> IF source = "claude" THEN 2 * v ELSE 0,
     CacheReadTokens     |-> IF source = "claude" THEN v ELSE 0,
     ReasoningTokens     |-> IF source = "codex" THEN v ELSE 0,
     TotalTokens         |-> IF source = "claude" THEN 18 * v ELSE 15 * v,
     Cost                |-> IF source = "claude" THEN 11280 * v ELSE 10500 * v]

\* The rows the stores are filled with: sessions that ended after they
\* started, at their start or before it, sessions without an end, of both
\* sources, with and without a model, on three days of two weeks.
StatRows ==
    { StatRow("r1", "codex", "gpt-5", 1000, Some(1060), 1),
      StatRow("r2", "codex", "", 1100, Nil, 2),
      StatRow("r3", "claude", "claude-m", SecondsPerDay + 1000, Some(SecondsPerDay + 1000), 1),
      StatRow("r4", "claude", "gpt-5", 8 * SecondsPerDay, Some(ZeroTimeUnix), 2),
      StatRow("r5", "codex", "", ZeroTimeUnix, Some(ZeroTimeUnix), 1),
      StatRow("r6", "claude", "", SecondsPerDay + 1000, Some(SecondsPerDay + 1030), 3) }

\* The lower ends of the period windows the queries are asked with.
Sinces == {ZeroTimeUnix, 0, 1100, SecondsPerDay + 1001}

\* DB.InsertSession called with a row; a duplicate external_id is an error and
\* leaves the store as it is.
InsertSessionCall(row) ==
    /\ db' = InsertSession(db, row).db
    /\ UNCHANGED <<lastCall, sync, shadow, workers, codex, claude, config>>

\* The messages the stores are filled with: two of session r1, one of r3.
StatMessages == {<<"r1", 1>>, <<"r1", 2>>, <<"r3", 1>>}

\* DB.InsertMessage called once with the i-th message of the stored session of
\* this external id, under the id InsertSession returned for it, the messages
\* of a session in the order of its transcript.
InsertMessageCall(externalID, i) ==
    LET sessionID == GetSessionByExternalID(db, externalID)
        row == MessageRow(sessionID, Message(i))
    IN  /\ sessionID # 0
        /\ \A m \in DOMAIN db.messages : db.messages[m] # row
        /\ GetMessageCountBySessionID(db, sessionID) = i - 1
        /\ db' = InsertMessage(db, row)
        /\ UNCHANGED <<lastCall, sync, shadow, workers, codex, claude, config>>

NextStats ==
    \/ \E row \in StatRows : InsertSessionCall(row)
    \/ \E m \in StatMessages : InsertMessageCall(m[1], m[2])

SpecStats == Init /\ [][NextStats]_vars

\* WHERE source = ? AND started_at >= ?: the ids of the rows selected.
InPeriod(d, source, since) ==
    {i \in DOMAIN d.sessions :
        d.sessions[i].Source = source /\ d.sessions[i].StartedAt >= since}

\* WHERE started_at >= ?
InPeriodAll(d, since) ==
    {i \in DOMAIN d.sessions : d.sessions[i].StartedAt >= since}

\* Mutant: the difference of the two stamps whenever the session has an end.
SessionTime_Signed(row) ==
    IF row.EndedAt # Nil THEN row.EndedAt[1] - row.StartedAt ELSE 0

\* CASE WHEN ended_at IS NOT NULL AND ended_at > started_at
\*      THEN ended_at - started_at ELSE 0 END
SessionTime(row) ==
    IF row.EndedAt # Nil /\ row.EndedAt[1] > row.StartedAt
    THEN row.EndedAt[1] - row.StartedAt
    ELSE 0

\* SUM(CASE ... END) over the rows S, 0 for no row (COALESCE).
RECURSIVE SumTime(_, _)
SumTime(d, S) ==
    IF S = {} THEN 0
    ELSE LET i == CHOOSE x \in S : TRUE
         IN  SessionTime(d.sessions[i]) + SumTime(d, S \ {i})

\* COALESCE(SUM(column), 0) over the rows S.
RECURSIVE SumColumn(_, _, _)
SumColumn(d, S, column) ==
    IF S = {} THEN 0
    ELSE LET i == CHOOSE x \in S : TRUE
         IN  d.sessions[i][column] + SumColumn(d, S \ {i}, column)

\* The SELECT list shared by GetAggregatedStats and GetAggregatedStatsAll.
AggregatedStats(d, S) ==
    [TotalSessionTime   |-> SumTime(d, S),
     TotalInputTokens   |-> SumColumn(d, S, "InputTokens"),
     TotalOutputTokens  |-> SumColumn(d, S, "OutputTokens"),
     TotalCacheCreation |-> SumColumn(d, S, "CacheCreationTokens"),
     TotalCacheRead     |-> SumColumn(d, S, "CacheReadTokens"),
     TotalTokens        |-> SumColumn(d, S, "TotalTokens"),
     TotalCost          |-> SumColumn(d, S, "Cost"),
     SessionCount       |-> Cardinality(S)]

GetAggregatedStats(d, source, since) == AggregatedStats(d, InPeriod(d, source, since))

GetAggregatedStatsAll(d, since) == AggregatedStats(d, InPeriodAll(d, since))

\* Mutant: the message counts joined with JOIN, so that a session without
\* messages is in no group.
GetPerAgentStats_InnerJoin(d, since) ==
    LET Of(source) == {i \in InPeriod(d, source, since) :
                          \E m \in DOMAIN d.messages : d.messages[m].SessionID = i}
    IN  {[Source             |-> source,
          SessionCount       |-> Cardinality(Of(source)),
          TotalInputTokens   |-> SumColumn(d, Of(source), "InputTokens"),
          TotalOutputTokens  |-> SumColumn(d, Of(source), "OutputTokens"),
          TotalCacheCreation |-> SumColumn(d, Of(source), "CacheCreationTokens"),
          TotalCacheRead     |-> SumColumn(d, Of(source), "CacheReadTokens"),
          TotalTokens        |-> SumColumn(d, Of(source), "TotalTokens"),
          TotalCost          |-> SumColumn(d, Of(source), "Cost"),
          TotalTime          |-> SumTime(d, Of(source)),
          TotalMessages      |-> Cardinality({m \in DOMAIN d.messages :
                                                d.messages[m].SessionID \in Of(source)})] :
            source \in {x \in Sources : Of(x) # {}}}

\* GetPerAgentStats: one entry per source that has a row in the period (the
\* entries as a set, their order left aside); the message counts come by LEFT
\* JOIN, a session without messages adding none.
GetPerAgentStats(d, since) ==
    LET Of(source) == InPeriod(d, source, since)
    IN  {[Source             |-> source,
          SessionCount       |-> Cardinality(Of(source)),
          TotalInputTokens   |-> SumColumn(d, Of(source), "InputTokens"),
          TotalOutputTokens  |-> SumColumn(d, Of(source), "OutputTokens"),
          TotalCacheCreation |-> SumColumn(d, Of(source), "CacheCreationTokens"),
          TotalCacheRead     |-> SumColumn(d, Of(source), "CacheReadTokens"),
          TotalTokens        |-> SumColumn(d, Of(source), "TotalTokens"),
          TotalCost          |-> SumColumn(d, Of(source), "Cost"),
          TotalTime          |-> SumTime(d, Of(source)),
          TotalMessages      |-> Cardinality({m \in DOMAIN d.messages :
                                                d.messages[m].SessionID \in Of(source)})] :
            source \in {x \in Sources : Of(x) # {}}}

\* date(started_at, 'unixepoch'): the day, counted from 1970-01-01.
Day(t) == t \div SecondsPerDay

\* strftime('%Y-W%W', started_at, 'unixepoch'): the year (proleptic Gregorian
\* calendar) and the week of the year, 00 to 53, the first Monday of the year
\* opening week 01 (1970-01-01 is a Thursday). The days of one week before and
\* after 1 January have different keys.
Week(t) ==
    LET z == Day(t) + 719468
        era == z \div 146097
        doe == z - era * 146097
        yoe == (doe - (doe \div 1460) + (doe \div 36524) - (doe \div 146096)) \div 365
        \* the day of the year that begins on 1 March
        doy == doe - (365 * yoe + (yoe \div 4) - (yoe \div 100))
        year == yoe + era * 400 + (IF doy >= 306 THEN 1 ELSE 0)
        leap == IF year % 4 = 0 /\ (year % 100 # 0 \/ year % 400 = 0) THEN 1 ELSE 0
        yday == IF doy >= 306 THEN doy - 306 ELSE doy + 59 + leap
        weekday == (Day(t) + 3) % 7
    IN  <<year, (yday + 7 - weekday) \div 7>>

\* GetDailySummaries: one entry per day that has a row in the period.
GetDailySummaries(d, source, since) ==
    LET S == InPeriod(d, source, since)
        On(day) == {i \in S : Day(d.sessions[i].StartedAt) = day}
    IN  {[Date         |-> day,
          SessionCount |-> Cardinality(On(day)),
          TotalTime    |-> SumTime(d, On(day)),
          TotalTokens  |-> SumColumn(d, On(day), "TotalTokens")] :
            day \in {Day(d.sessions[i].StartedAt) : i \in S}}

\* GetWeeklySummaries: one entry per week that has a row in the period.
GetWeeklySummaries(d, source, since) ==
    LET S == InPeriod(d, source, since)
        key == [i \in S |-> Week(d.sessions[i].StartedAt)]
        In(week) == {i \in S : key[i] = week}
        MinStart(T) == CHOOSE t \in {d.sessions[i].StartedAt : i \in T} :
                          \A i \in T : t <= d.sessions[i].StartedAt
    IN  {[WeekStart    |-> Day(MinStart(In(week))),
          SessionCount |-> Cardinality(In(week)),
          TotalTime    |-> SumTime(d, In(week)),
          TotalTokens  |-> SumColumn(d, In(week), "TotalTokens")] :
            week \in {key[i] : i \in S}}

\* The most entries a query is asked for.
MaxLimit == 3

Limits == 0 .. MaxLimit

\* LIMIT ?: the first n rows; a negative n is no limit.
Limit(rows, n) ==
    IF n < 0 \/ n >= Len(rows) THEN rows ELSE SubSeq(rows, 1, n)

\* Mutant: every model of the rows, the empty one too.
ModelsIn_WithEmpty(d, S) == {d.sessions[i].Model : i \in S}

\* AND model IS NOT NULL AND model != '' GROUP BY model: the groups.
ModelsIn(d, S) ==
    {d.sessions[i].Model : i \in {j \in S : d.sessions[j].Model # ""}}

\* COUNT(*) as session_count of the group of a model.
SessionCountOf(d, S, model) ==
    Cardinality({i \in S : d.sessions[i].Model = model})

\* ORDER BY session_count DESC: the orders the groups M can come in; groups of
\* the same count come in an order the query does not fix.
RECURSIVE ByCountDesc(_, _, _)
ByCountDesc(d, S, M) ==
    IF M = {} THEN {<<>>}
    ELSE UNION {{<<[Model |-> m, SessionCount |-> SessionCountOf(d, S, m)]>> \o rest :
                    rest \in ByCountDesc(d, S, M \ {m})} :
                m \in {x \in M : \A y \in M :
                          SessionCountOf(d, S, x) >= SessionCountOf(d, S, y)}}

\* The query shared by GetTopModels and GetTopModelsAll over the rows S: the
\* lists it can return.
TopModels(d, S, limit) ==
    {Limit(rows, limit) : rows \in ByCountDesc(d, S, ModelsIn(d, S))}

GetTopModels(d, source, since, limit) == TopModels(d, InPeriod(d, source, since), limit)

GetTopModelsAll(d, since, limit) == TopModels(d, InPeriodAll(d, since), limit)

\* Mutant: the orders by start time ascending.
RECURSIVE ByStartDesc_Asc(_, _)
ByStartDesc_Asc(d, S) ==
    IF S = {} THEN {<<>>}
    ELSE UNION {{<<i>> \o rest : rest \in ByStartDesc_Asc(d, S \ {i})} :
                i \in {x \in S : \A y \in S :
                          d.sessions[x].StartedAt <= d.sessions[y].StartedAt}}

\* ORDER BY s.started_at DESC: the orders the rows S can come in, as lists of
\* session ids; rows of the same start come in an order the query does not fix.
RECURSIVE ByStartDesc(_, _)
ByStartDesc(d, S) ==
    IF S = {} THEN {<<>>}
    ELSE UNION {{<<i>> \o rest : rest \in ByStartDesc(d, S \ {i})} :
                i \in {x \in S : \A y \in S :
                          d.sessions[x].StartedAt >= d.sessions[y].StartedAt}}

\* A row as the listing queries return it: the stored row with its id and the
\* count of its messages.
Listed(d, i) ==
    [ID           |-> i,
     Row          |-> d.sessions[i],
     MessageCount |-> Cardinality({m \in DOMAIN d.messages : d.messages[m].SessionID = i})]

\* GetRecentSessions: the lists it can return; no error on any store.
GetRecentSessions(d, limit) ==
    {[k \in DOMAIN ids |-> Listed(d, ids[k])] :
        ids \in {Limit(order, limit) : order \in ByStartDesc(d, DOMAIN d.sessions)}}

\* The values a Period is asked with; "year" stands for any other string.
PeriodDay == "day"
PeriodWeek == "week"
PeriodMonth == "month"
Periods == {PeriodDay, PeriodWeek, PeriodMonth, "year"}

\* The instants of the clock, in ticks, the statistics are asked at: on the
\* second and within it, one, eight and forty days after the first sessions.
Nows ==
    {TicksPerSecond * (SecondsPerDay + 1000),
     TicksPerSecond * (SecondsPerDay + 1000) + 1,
     TicksPerSecond * (SecondsPerDay + 1100) + 1,
     TicksPerSecond * (8 * SecondsPerDay + 500),
     TicksPerSecond * (40 * SecondsPerDay)}

\* now.AddDate(0, 0, -days), days of 24 hours.
AddDays(now, days) == now + days * SecondsPerDay * TicksPerSecond

\* Mutant: a value that is no period is taken as a month.
PeriodStart_DefaultMonth(period, now) ==
    Unix(CASE period = PeriodDay -> AddDays(now, 0 - 1)
           [] period = PeriodWeek -> AddDays(now, 0 - 7)
           [] OTHER -> AddDays(now, 0 - 30))

\* The switch on the period and startTime.Unix(): the window's lower end.
PeriodStart(period, now) ==
    Unix(CASE period = PeriodDay -> AddDays(now, 0 - 1)
           [] period = PeriodWeek -> AddDays(now, 0 - 7)
           [] period = PeriodMonth -> AddDays(now, 0 - 30)
           [] OTHER -> AddDays(now, 0 - 1))

\* GetLastSession: WHERE source = ? AND started_at >= ? ORDER BY started_at
\* DESC LIMIT 1. The rows it can return, Nil (nil, nil) for sql.ErrNoRows.
GetLastSession(d, source, since) ==
    LET S == InPeriod(d, source, since)
    IN  IF S = {} THEN {Nil}
        ELSE {Some(Listed(d, i)) :
                 i \in {x \in S : \A y \in S :
                           d.sessions[x].StartedAt >= d.sessions[y].StartedAt}}

\* COUNT(m.id) FROM messages m JOIN sessions s ON m.session_id = s.id WHERE
\* s.source = ? AND s.started_at >= ?
GetMessageCount(d, source, since) ==
    Cardinality({m \in DOMAIN d.messages :
                    d.messages[m].SessionID \in InPeriod(d, source, since)})

\* The same count over the sessions of every source.
GetMessageCountAll(d, since) ==
    Cardinality({m \in DOMAIN d.messages :
                    d.messages[m].SessionID \in InPeriodAll(d, since)})

\* SQLiteTracker.GetUsageStats at the instant now: the results that depend on
\* the window. LastSession and TopModels are the values the queries can return.
GetUsageStats(d, agent, period, now) ==
    LET startTimestamp == PeriodStart(period, now)
        stats == GetAggregatedStats(d, agent, startTimestamp)
    IN  [LastSession      |-> GetLastSession(d, agent, startTimestamp),
         TopModels        |-> GetTopModels(d, agent, startTimestamp, 3),
         DailySummaries   |-> IF period = PeriodWeek
                              THEN GetDailySummaries(d, agent, startTimestamp) ELSE {},
         WeeklySummaries  |-> IF period = PeriodMonth
                              THEN GetWeeklySummaries(d, agent, startTimestamp) ELSE {},
         TotalSessionTime |-> stats.TotalSessionTime,
         TotalTokens      |-> stats.TotalTokens,
         TotalCost        |-> stats.TotalCost,
         TotalMessages    |-> GetMessageCount(d, agent, startTimestamp),
         SessionCount     |-> stats.SessionCount]

-----------------------------------------------------------------------------
(* SpecConfig: LoadConfig, internal/config, in its two revisions *)

\* What a config file sets: a key is absent (Nil) or holds a value.
Settings(codexKey, claudeKey, database) ==
    [kind |-> "settings", codex |-> codexKey, claude |-> claudeKey, database |-> database]

\* The states of the file at a path: no file, no file and a directory of the
\* path that is a file, a file that cannot be read, a file that is not TOML, a TOML file with a value that does not decode into
\* Config (agents.codex = "maybe", agents = 5), a file with any of the keys set.
ConfigFileStates ==
    {[kind |-> "missing"], [kind |-> "notdir"], [kind |-> "unreadable"],
     [kind |-> "malformed"], [kind |-> "illtyped"]}
    \cup {Settings(c, k, d) : c \in {Nil, Some(TRUE), Some(FALSE)},
                              k \in {Nil, Some(TRUE), Some(FALSE)},
                              d \in {Nil, Some("/data/usage.db")}}

\* A path: what precedes its extension, and the extension without the dot.
Path(name, ext) == [name |-> name, ext |-> ext]

\* The configPath argument: "" (none), or the path of the custom file, with
\* the extension toml, with none, with one viper knows no format for.
ConfigPaths ==
    {Path("", ""), Path("/etc/custom", "toml"), Path("/etc/custom", ""),
     Path("/etc/custom", "txt")}

\* viper's ReadInConfig on the file set with SetConfigFile: the error it
\* returns, "nil" for a file read and parsed. No config type is set, so the
\* type is the extension of the path, and an extension outside SupportedExts is
\* an UnsupportedConfigError before the file is opened. Then the error of the
\* read: ENOENT for a missing file, ENOTDIR when a directory of the path is a
\* file, EACCES; then the error of the parse.
ReadInConfig(path, file) ==
    LET SupportedExts == {"json", "toml", "yaml", "yml", "properties", "props", "prop",
                          "hcl", "tfvars", "dotenv", "env", "ini"}
    IN  IF path.ext \notin SupportedExts THEN "unsupported config type"
        ELSE CASE file.kind = "missing" -> "ENOENT"
               [] file.kind = "notdir" -> "ENOTDIR"
               [] file.kind = "unreadable" -> "EACCES"
               [] file.kind = "malformed" -> "parse"
               [] OTHER -> ErrNil

\* viper's Unmarshal into Config: an error when a value of the file read does
\* not decode into its field; else the value of the file where the file has
\* the key, else the default set for the key, else the zero value.
Unmarshal(file, defaults) ==
    LET read == file.kind = "settings"
        key(name) == IF read /\ file[name] # Nil THEN file[name][1] ELSE defaults[name]
    IN  IF file.kind = "illtyped"
        THEN [err |-> "decode",
              cfg |-> [Agents |-> [Codex |-> FALSE, ClaudeCode |-> FALSE], Database |-> ""]]
        ELSE [err |-> ErrNil,
              cfg |-> [Agents   |-> [Codex |-> key("codex"), ClaudeCode |-> key("claude")],
                       Database |-> key("database")]]

\* What LoadConfig returns: (nil, err) or (&cfg, nil), and whether it made the
\* default directory.
Loaded(cfg, made) == [cfg |-> Some(cfg), err |-> ErrNil, mkdir |-> made]
Failed(err) == [cfg |-> Nil, err |-> err, mkdir |-> FALSE]

\* LoadConfig(configPath) of internal/config/config.go, custom the file at
\* configPath and default the file at ~/.agent-usage/config.toml; homeOK:
\* os.UserHomeDir returns no error. No default is set, and every error of
\* ReadInConfig is returned. The files of the model do not set autosync.
LoadConfig(configPath, homeOK, custom, default) ==
    LET none == [codex |-> FALSE, claude |-> FALSE, database |-> ""]
        Unmarshalled(u) ==
            IF u.err # ErrNil THEN Failed("failed to unmarshal config")
            ELSE Loaded([Agents |-> u.cfg.Agents, Database |-> u.cfg.Database,
                         AutoSync |-> FALSE], FALSE)
    IN  IF configPath # Path("", "")
        THEN IF ReadInConfig(configPath, custom) # ErrNil
             THEN Failed("failed to read config file")
             ELSE Unmarshalled(Unmarshal(custom, none))
        ELSE IF ~homeOK THEN Failed("failed to get home directory")
             ELSE IF ReadInConfig(Path("~/.agent-usage/config", "toml"), default) # ErrNil
                  THEN Failed("failed to read config at default location")
                  ELSE Unmarshalled(Unmarshal(default, none))

\* LoadConfig(configPath) of the other revision of the package (part_003):
\* the defaults agents.codex and agents.claude are set, and an error of
\* ReadInConfig that os.IsNotExist recognises is passed over; at the default
\* location the directory is then made.
LoadConfig_part_003(configPath, homeOK, custom, default) ==
    LET defaults == [codex |-> TRUE, claude |-> TRUE, database |-> ""]
        missing == [kind |-> "missing"]
        Unmarshalled(u, made) ==
            IF u.err # ErrNil THEN Failed("failed to unmarshal config")
            ELSE Loaded(u.cfg, made)
        defaultPath == Path("~/.agent-usage/config", "toml")
        \* os.IsNotExist(err)
        IsNotExist(err) == err = "ENOENT"
    IN  IF configPath # Path("", "")
        THEN LET err == ReadInConfig(configPath, custom)
             IN  IF err # ErrNil /\ ~IsNotExist(err)
                 THEN Failed("failed to read config file")
                 ELSE Unmarshalled(Unmarshal(IF err = ErrNil THEN custom ELSE missing,
                                             defaults), FALSE)
        ELSE IF ~homeOK THEN Failed("failed to get home directory")
             ELSE LET err == ReadInConfig(defaultPath, default)
                  IN  IF err # ErrNil /\ ~IsNotExist(err)
                      THEN Failed("failed to read config")
                      ELSE Unmarshalled(Unmarshal(IF err = ErrNil THEN default ELSE missing,
                                                  defaults),
                                        err # ErrNil)

\* The command about to load its configuration. The sources hold two
\* revisions of the package config, and the command is built with either.
InitConfig ==
    /\ db = EmptyDB
    /\ lastCall = NoCall
    /\ sync = NoSync
    /\ shadow = NoShadow
    /\ workers = NoWorkers
    /\ codex = NoCodex
    /\ claude = NoClaude
    /\ \E revision \in {"internal/config/config.go", "unnamed/part_003"},
          configPath \in ConfigPaths, homeOK \in BOOLEAN,
          custom \in ConfigFileStates, default \in ConfigFileStates :
          config = [pc |-> "load", revision |-> revision, configPath |-> configPath,
                    homeOK |-> homeOK, custom |-> custom, default |-> default,
                    result |-> Nil]

LoadConfigCall ==
    /\ config.pc = "load"
    /\ config' = [config EXCEPT
                     !.pc = "done",
                     !.result = Some(IF config.revision = "unnamed/part_003"
                                     THEN LoadConfig_part_003(config.configPath, config.homeOK,
                                                              config.custom, config.default)
                                     ELSE LoadConfig(config.configPath, config.homeOK,
                                                     config.custom, config.default))]
    /\ UNCHANGED <<db, lastCall, sync, shadow, workers, codex, claude>>

SpecConfig == InitConfig /\ [][LoadConfigCall]_vars

-----------------------------------------------------------------------------
(* Properties of the reconciler, under Spec *)

IsPrefix(a, b) == Len(a) <= Len(b) /\ SubSeq(b, 1, Len(a)) = a

\* Whether a session with this external id is stored, and its row id.
Stored(d, id) == \E i \in DOMAIN d.sessions : d.sessions[i].ExternalID = id
RowOf(d, id) == CHOOSE i \in DOMAIN d.sessions : d.sessions[i].ExternalID = id

\* The message rows a parsed transcript becomes under session row sid.
RowsFor(sid, msgs) ==
    [i \in 1..Len(msgs) |->
        [SessionID |-> sid, Role |-> msgs[i].Role, Content |-> msgs[i].Content,
         Timestamp |-> Unix(msgs[i].Timestamp)]]

\* The storage operation that fails in a call: none (0) or any of its operations.
FailPoints == 0..(2 + MaxMsgs + MaxTools)

\* C1: in every reachable store, reconciling a parsed session whose externalId
\* is not stored, with no storage failure, returns nil (Inserted) and adds one
\* session row and one message row per message; reconciling the same parsed
\* session again returns AlreadyTracked and leaves every table as it was.
C1_IdempotentResync ==
    \A c \in Calls :
        ~Stored(db, c.session.ID) =>
            LET r1  == Track(db, c, 0)
                r2  == Track(r1.db, c, 0)
                sid == Len(db.sessions) + 1
            IN  /\ Outcome(r1.err) = "Inserted"
                /\ Len(r1.db.sessions) = Len(db.sessions) + 1
                /\ r1.db.sessions[sid].ExternalID = c.session.ID
                /\ r1.db.messages = db.messages \o RowsFor(sid, c.session.Messages)
                /\ Outcome(r2.err) = "AlreadyTracked"
                /\ r2.db = r1.db

\* A session stored with all its messages has just been reconciled again by the
\* method that stored it, and was answered AlreadyTracked.
C1_Witness ==
    /\ lastCall.called /\ ~lastCall.failed
    /\ lastCall.err = ErrSessionAlreadyTracked
    /\ Stored(db, lastCall.ID)
    /\ db.sessions[RowOf(db, lastCall.ID)].Source = lastCall.source
    /\ \A rows \in MessagesOf(db, RowOf(db, lastCall.ID)) : Len(rows) = MaxMsgs

\* C2: in every reachable store, when a session is stored with zero message
\* rows, reconciling a parse of its externalId with N > 0 messages (no storage
\* failure) returns Backfilled; afterwards the session has exactly the N message
\* rows of the parse, appended to the table in parse order, and the session
\* rows, the tool-call rows and the other sessions' message rows are as before.
\* GetMessagesBySessionID then returns these rows and no other list: the
\* timestamps of a transcript's messages ascend, so that ORDER BY timestamp is
\* the parse order.
C2_BackfillCompletion ==
    \A c \in Calls :
        (/\ Stored(db, c.session.ID)
         /\ GetMessageCountBySessionID(db, RowOf(db, c.session.ID)) = 0
         /\ c.session.Messages # <<>>) =>
            LET sid == RowOf(db, c.session.ID)
                r   == Track(db, c, 0)
            IN  /\ Outcome(r.err) = "Backfilled"
                /\ MessagesOf(r.db, sid)
                      = {[i \in 1..Len(c.session.Messages) |->
                            [ID        |-> Len(db.messages) + i,
                             SessionID |-> sid,
                             Role      |-> c.session.Messages[i].Role,
                             Content   |-> c.session.Messages[i].Content,
                             Timestamp |-> Unix(c.session.Messages[i].Timestamp)]]}
                /\ r.db.messages = db.messages \o RowsFor(sid, c.session.Messages)
                /\ r.db.sessions = db.sessions
                /\ r.db.tool_calls = db.tool_calls

\* A session inserted with tool calls and no message has been backfilled with
\* MaxMsgs messages.
C2_Witness ==
    /\ lastCall.called /\ ~lastCall.failed
    /\ lastCall.err = ErrSessionBackfilled
    /\ \A rows \in MessagesOf(db, RowOf(db, lastCall.ID)) : Len(rows) = MaxMsgs
    /\ \A rows \in ToolCallsOf(db, RowOf(db, lastCall.ID)) : Len(rows) = MaxTools

\* C3: no step of any reconcile call, whatever it returns, deletes or changes a
\* stored row: each table after the call is the table before it, followed by
\* the rows the call added.
C3_ScalarImmutability ==
    [][/\ IsPrefix(db.sessions, db'.sessions)
       /\ IsPrefix(db.messages, db'.messages)
       /\ IsPrefix(db.tool_calls, db'.tool_calls)]_vars

\* A call has failed on a store that holds two sessions and a transcript.
C3_Witness ==
    /\ lastCall.called /\ lastCall.failed /\ lastCall.err = ErrStorage
    /\ Len(db.sessions) = 2
    /\ Len(db.messages) >= MaxMsgs

\* The frame of C4: a reconcile for a stored externalId that has a message row,
\* or whose parse has no message, leaves the store unchanged whichever storage
\* operation fails, and returns AlreadyTracked when none fails.
C4_Frame ==
    \A c \in Calls :
        (/\ Stored(db, c.session.ID)
         /\ \/ GetMessageCountBySessionID(db, RowOf(db, c.session.ID)) > 0
            \/ c.session.Messages = <<>>) =>
            \A failAt \in FailPoints :
                LET r == Track(db, c, failAt)
                IN  /\ r.db = db
                    /\ ~r.failed => Outcome(r.err) = "AlreadyTracked"

\* A call answered Backfilled found its session without a message row and left
\* it with one.
C4_BackfilledStep ==
    (lastCall'.called /\ lastCall'.err = ErrSessionBackfilled) =>
        /\ Stored(db, lastCall'.ID)
        /\ GetMessageCountBySessionID(db, RowOf(db, lastCall'.ID)) = 0
        /\ GetMessageCountBySessionID(db', RowOf(db, lastCall'.ID)) > 0

\* C4: once a stored session has a message row, every later reconcile for its
\* externalId returns AlreadyTracked and leaves the store unchanged, whatever
\* the parse holds; so does a reconcile with a message-less parse of a stored
\* session; a session is answered Backfilled only while it has no message row,
\* hence at most once.
C4_AlreadyTrackedIsFinal == [](C4_Frame) /\ [][C4_BackfilledStep]_vars

\* A parse from the other source, for a session that has its messages, was
\* answered AlreadyTracked.
C4_Witness ==
    /\ lastCall.called /\ ~lastCall.failed
    /\ lastCall.err = ErrSessionAlreadyTracked
    /\ Stored(db, lastCall.ID)
    /\ db.sessions[RowOf(db, lastCall.ID)].Source # lastCall.source
    /\ MessagesOf(db, RowOf(db, lastCall.ID)) # {<<>>}

\* C6: no two session rows share an externalId; a reconcile by one source of an
\* externalId stored by the other source adds no session row and changes none
\* (the row keeps its source), and when no storage operation fails it returns
\* AlreadyTracked or Backfilled.
C6_UniqueAcrossSources ==
    /\ \A i, j \in DOMAIN db.sessions :
            i # j => db.sessions[i].ExternalID # db.sessions[j].ExternalID
    /\ \A c \in Calls :
        (/\ Stored(db, c.session.ID)
         /\ db.sessions[RowOf(db, c.session.ID)].Source # c.source) =>
            \A failAt \in FailPoints :
                LET r == Track(db, c, failAt)
                IN  /\ r.db.sessions = db.sessions
                    /\ ~r.failed => Outcome(r.err) \in {"AlreadyTracked", "Backfilled"}

\* A session stored by one source has been backfilled by a parse of the other.
C6_Witness ==
    /\ lastCall.called
    /\ lastCall.err = ErrSessionBackfilled
    /\ db.sessions[RowOf(db, lastCall.ID)].Source # lastCall.source

-----------------------------------------------------------------------------
(* Properties of a retried reconcile, under SpecRetry *)

\* C27 (retry after a storage failure): when a reconcile of a parsed session
\* with N > 0 messages wrote the session row and then failed, the reconcile of
\* the same parsed session run next with the storage healthy leaves the stored
\* session with exactly N message rows.
C27_RetryCompletes ==
    (/\ lastCall.called
     /\ lastCall.attempt = 2
     /\ Len(lastCall.session.Messages) > 0) =>
        /\ Stored(db, lastCall.ID)
        /\ GetMessageCountBySessionID(db, RowOf(db, lastCall.ID))
              = Len(lastCall.session.Messages)

\* The first attempt wrote the row and one of two messages, then failed; the
\* retry has returned ErrSessionAlreadyTracked and the session keeps one row.
C27_Witness ==
    /\ lastCall.called
    /\ lastCall.attempt = 2
    /\ Len(lastCall.session.Messages) = 2
    /\ lastCall.err = ErrSessionAlreadyTracked
    /\ Len(db.sessions) = 1
    /\ GetMessageCountBySessionID(db, RowOf(db, lastCall.ID)) = 1

-----------------------------------------------------------------------------
(* Properties of runSync, under SpecSync *)

\* C7 (batch isolation): a file that cannot be read, or whose reconcile hits a
\* storage failure, leaves the loop running, and every other file of the batch
\* gets the outcome it gets in the same batch without the failing files.
C7_BatchIsolation ==
    /\ (sync.last.kind = "unreadable" \/ sync.last.failed) => sync.pc \in {"loop", "done"}
    /\ (sync.last.kind = "reconciled" /\ ~sync.last.failed)
          => Outcome(sync.last.err) = Outcome(sync.last.shadowErr)

\* A file reconciled with the storage healthy ends differently than in the
\* batch without the files that failed before it.
C7_Witness ==
    /\ sync.last.kind = "reconciled"
    /\ ~sync.last.failed
    /\ Outcome(sync.last.shadowErr) = "Inserted"
    /\ Outcome(sync.last.err) \in {"Backfilled", "AlreadyTracked"}

\* C8 (sync outcome summary): the sync keeps one count per outcome, and each
\* reconciled file adds one to the count of its own outcome: the count of new
\* sessions is the number of Inserted files, the count of updated sessions the
\* number of Backfilled files, the count of already tracked sessions the number
\* of AlreadyTracked files, errors being counted apart.
C8_FourCounts ==
    /\ sync.tracked = sync.tally["Inserted"]
    /\ sync.backfilled = sync.tally["Backfilled"]
    /\ sync.skipped = sync.tally["AlreadyTracked"]

\* A sync has counted a storage error and an already tracked session into the
\* one counter `skipped`.
C8_Witness ==
    /\ sync.pc = "done"
    /\ sync.tally["Error"] > 0
    /\ sync.tally["AlreadyTracked"] > 0
    /\ sync.skipped = sync.tally["Error"] + sync.tally["AlreadyTracked"]
    /\ sync.tracked + sync.backfilled + sync.skipped = sync.n

\* The files of the batch that were parsed and handed to the reconciler.
Reconciled(s) ==
    s.tally["Inserted"] + s.tally["Backfilled"] + s.tally["AlreadyTracked"] + s.tally["Error"]

\* A step changes the last sync time of a source only at the end of a runSync
\* of that source in which a file was reconciled.
C26_Step ==
    /\ \A a \in Sources :
          db'.metadata[a] # db.metadata[a] =>
              /\ sync.pc = "loop" /\ sync'.pc = "done"
              /\ sync.agent = a
              /\ Reconciled(sync) > 0
              /\ db'.metadata[a] # Nil
    /\ (sync.pc = "loop" /\ sync'.pc = "done" /\ Reconciled(sync) = 0) =>
          db'.metadata = db.metadata

\* The key of a source reads 0 while no runSync of it has saved a time, and
\* the time reported for all sources is the greater of the two keys.
C26_Reads ==
    /\ \A a \in Sources : db.metadata[a] = Nil => GetLastSyncTime(db, a) = 0
    /\ \A a \in Sources : LastSyncTimeAll(db) >= GetLastSyncTime(db, a)
    /\ \E a \in Sources : LastSyncTimeAll(db) = GetLastSyncTime(db, a)

\* C26 (last-sync bookkeeping): last_sync_<source> reads 0 from the start and
\* until a runSync of that source that reconciled at least one file ends; a
\* runSync changes only its own source's key, and only when it reconciled a
\* file, so a sync that found no file or parsed none leaves the keys as they
\* were; the all-source statistics report the greater of the two keys.
C26_LastSyncBookkeeping ==
    /\ \A a \in Sources : GetLastSyncTime(db, a) = 0
    /\ [](C26_Reads)
    /\ [][C26_Step]_vars

\* After a runSync of codex that reconciled a file, a runSync of claude found
\* files and parsed none: the key of codex holds the time saved, the key of
\* claude still reads 0, and the all-source time is that of codex.
C26_Witness ==
    /\ sync.pc = "done"
    /\ sync.agent = "claude"
    /\ sync.n > 0
    /\ Reconciled(sync) = 0
    /\ GetLastSyncTime(db, "codex") > 0
    /\ GetLastSyncTime(db, "claude") = 0
    /\ LastSyncTimeAll(db) = GetLastSyncTime(db, "codex")

\* The store holds a session under the file's external id that was written
\* from other content: its row is not the row of the file's session, or it has
\* another number of messages.
StoredFromOtherContent(d, session, source) ==
    LET k == GetSessionByExternalID(d, session.ID)
    IN  /\ k # 0
        /\ \/ d.sessions[k] # SessionRow(session, source)
           \/ GetMessageCountBySessionID(d, k) # Len(session.Messages)

\* C30 (unidentified sessions are not lost): when the sync, the storage healthy,
\* reconciles a file that parses to the empty external id while the store
\* already holds a session with the empty external id written from a file of
\* other content, the file gets a session row of its own: the step adds a
\* session row and does not end AlreadyTracked or Backfilled.
C30_Step ==
    \A file \in SessionFiles(sync.agent) :
        (/\ ~file.err
         /\ file.session.ID = ""
         /\ StoredFromOtherContent(db, file.session, sync.agent)
         /\ SyncFile(file, 0)) =>
            /\ Len(db'.sessions) = Len(db.sessions) + 1
            /\ Outcome(sync'.last.err) = "Inserted"

C30_UnidentifiedSessionsKept == [][C30_Step]_vars

\* A runSync of two files without an external id: the first, with no message,
\* was inserted; the second, with messages, was backfilled into the first's
\* row, and the store holds one session.
C30_Witness ==
    /\ sync.n = 2
    /\ sync.i = 3
    /\ sync.tally["Inserted"] = 1
    /\ sync.tally["Backfilled"] = 1
    /\ sync.last.kind = "reconciled"
    /\ sync.last.ID = ""
    /\ ~sync.last.failed
    /\ sync.last.err = ErrSessionBackfilled
    /\ Len(db.sessions) = 1
    /\ db.sessions[1].ExternalID = ""
    /\ GetMessageCountBySessionID(db, 1) > 0

-----------------------------------------------------------------------------
(* Properties of interleaved reconciles, under SpecRace *)

SessionRowsWith(d, id) ==
    {i \in 1..Len(d.sessions) : d.sessions[i].ExternalID = id}

\* C5 (duplicate insert race): when two reconciles of one externalId both pass
\* the existence check before either inserts, one session row results and the
\* attempt whose insert is rejected returns AlreadyTracked.
C5_DuplicateInsertRace ==
    workers # NoWorkers =>
        \A k \in WorkerIDs :
            (workers[k].lost /\ workers[k].w.pc = "return") =>
                /\ Cardinality(SessionRowsWith(db, workers[k].session.ID)) = 1
                /\ Outcome(workers[k].w.err) = "AlreadyTracked"

\* Both attempts passed the existence check, one inserted the row, and the
\* other returned the wrapped insert error.
C5_Witness ==
    /\ workers # NoWorkers
    /\ workers[1].session.ID = workers[2].session.ID
    /\ \E k \in WorkerIDs :
          /\ workers[k].lost
          /\ workers[k].w.pc = "return"
          /\ workers[k].w.err = ErrStorage
          /\ Cardinality(SessionRowsWith(db, workers[k].session.ID)) = 1

\* The message rows of the session stored under the id of worker k.
RaceMessageCount(k) ==
    Cardinality({m \in DOMAIN db.messages :
                    db.messages[m].SessionID \in SessionRowsWith(db, workers[k].session.ID)})

\* C28 (no duplicated transcript under interleaving): when two reconciles of
\* one externalId with the same N > 0 messages interleave and both have
\* returned, the stored session has exactly N message rows.
C28_NoDuplicatedTranscript ==
    (/\ workers # NoWorkers
     /\ workers[1].session = workers[2].session
     /\ workers[1].source = workers[2].source
     /\ Len(workers[1].session.Messages) > 0
     /\ \A k \in WorkerIDs : workers[k].w.pc = "return") =>
        RaceMessageCount(1) = Len(workers[1].session.Messages)

\* Both reconciles have returned, one nil and the other ErrSessionBackfilled:
\* the second found the row of the first before its messages were in and wrote
\* them too; the one session row has 2N message rows.
C28_Witness ==
    /\ workers # NoWorkers
    /\ workers[1].session = workers[2].session
    /\ workers[1].source = workers[2].source
    /\ Len(workers[1].session.Messages) > 0
    /\ \E j, k \in WorkerIDs :
          /\ workers[j].w.pc = "return" /\ workers[j].w.err = ErrNil
          /\ workers[k].w.pc = "return" /\ workers[k].w.err = ErrSessionBackfilled
    /\ Cardinality(SessionRowsWith(db, workers[1].session.ID)) = 1
    /\ RaceMessageCount(1) = 2 * Len(workers[1].session.Messages)
    /\ Cardinality(MessagesOf(db, RowOf(db, workers[1].session.ID))) > 1

-----------------------------------------------------------------------------
(* Properties of ParseCodexSession, under SpecCodex *)

\* The lines of the file that are turn_context events carrying a model.
TurnContextModels(lines) ==
    {i \in 1..Len(lines) :
        /\ lines[i].kind = "entry"
        /\ lines[i].Type = "turn_context"
        /\ lines[i].Payload # Nil
        /\ lines[i].Payload[1].model # Nil}

Last(S) == CHOOSE i \in S : \A j \in S : j <= i

\* C9 (model override ordering): when the file has a turn_context event with a
\* model, the parsed session's model is the model of the last such event,
\* wherever the session_meta events stand in the file.
C9_TurnContextAuthoritative ==
    (codex.pc = "done" /\ TurnContextModels(codex.lines) # {}) =>
        codex.session.Model =
            codex.lines[Last(TurnContextModels(codex.lines))].Payload[1].model[1]

\* A parse has returned with the originator of a session_meta event that
\* stands after the last turn_context event carrying a model.
C9_Witness ==
    /\ codex.pc = "done"
    /\ TurnContextModels(codex.lines) # {}
    /\ \E j \in 1..Len(codex.lines) :
          /\ j > Last(TurnContextModels(codex.lines))
          /\ codex.lines[j].kind = "entry"
          /\ codex.lines[j].Type = "session_meta"
          /\ codex.lines[j].Payload # Nil
          /\ codex.lines[j].Payload[1].originator = Some(codex.session.Model)
    /\ codex.session.Model #
          codex.lines[Last(TurnContextModels(codex.lines))].Payload[1].model[1]

\* The lines of the file that are token_count events with a usage object.
TokenCountEvents(lines) ==
    {i \in 1..Len(lines) :
        /\ lines[i].kind = "entry"
        /\ lines[i].Type = "event_msg"
        /\ lines[i].Payload # Nil
        /\ lines[i].Payload[1].type = Some("token_count")
        /\ lines[i].Payload[1].usage # Nil}

\* The session's token field equals the usage field when the usage carries it.
Supersedes(value, field) == value # Nil => field = value[1]

\* C11 (token_count overwrite): when the file has token_count events, every
\* count the last of them carries (input, cached, output, reasoning, total) is
\* the returned session's count, whatever the earlier events carried.
C11_TokenCountOverwrite ==
    (codex.pc = "done" /\ TokenCountEvents(codex.lines) # {}) =>
        LET usage == codex.lines[Last(TokenCountEvents(codex.lines))].Payload[1].usage[1]
            tokens == codex.session.Tokens
        IN  /\ Supersedes(usage.input_tokens, tokens.Input)
            /\ Supersedes(usage.cached_input_tokens, tokens.Cached)
            /\ Supersedes(usage.output_tokens, tokens.Output)
            /\ Supersedes(usage.reasoning_output_tokens, tokens.Reasoning)
            /\ Supersedes(usage.total_tokens, tokens.Total)

\* A parse has returned an input count that is not the one its only
\* token_count event carries.
C11_Witness ==
    /\ codex.pc = "done"
    /\ Cardinality(TokenCountEvents(codex.lines)) = 1
    /\ LET usage == codex.lines[Last(TokenCountEvents(codex.lines))].Payload[1].usage[1]
       IN  /\ usage.input_tokens # Nil
           /\ usage.input_tokens[1] # codex.session.Tokens.Input

\* The total content length of the messages at the positions S.
RECURSIVE ContentLength(_, _)
ContentLength(messages, S) ==
    IF S = {} THEN 0
    ELSE LET j == CHOOSE x \in S : TRUE
         IN  Len(messages[j].Content) + ContentLength(messages, S \ {j})

InputMessages(messages) ==
    {j \in 1..Len(messages) : messages[j].Role \in {"user", "developer"}}

\* What C13 states of a session estimateTokens has run on.
Estimated(session) ==
    LET msgs == session.Messages
        cin == ContentLength(msgs, InputMessages(msgs))
        cout == ContentLength(msgs, (1..Len(msgs)) \ InputMessages(msgs))
    IN  /\ 4 * session.Tokens.Input <= cin
        /\ cin < 4 * (session.Tokens.Input + 1)
        /\ 4 * session.Tokens.Output <= cout
        /\ cout < 4 * (session.Tokens.Output + 1)
        /\ session.Tokens.Total = session.Tokens.Input + session.Tokens.Output
        /\ session.Cost = 300 * session.Tokens.Input + 1500 * session.Tokens.Output

\* C13 (token estimation): when the parse ends with no total, estimateTokens
\* sets input to the floor of a quarter of the content length of the user and
\* developer messages, output to the floor of a quarter of the content length
\* of the other messages, total to their sum and cost to input*3/1e6 +
\* output*15/1e6 (here in units of 10^-8 dollar).
C13_TokenEstimation ==
    [][(codex.pc = "loop" /\ codex'.pc = "done" /\ codex.session.Tokens.Total = 0)
          => Estimated(codex'.session)]_vars

\* The estimate has run on 10 input characters, from a developer and a user
\* message, and 13 output characters: input 2, output 3, total 5.
C13_Witness ==
    /\ codex.pc = "done"
    /\ TokenCountEvents(codex.lines) = {}
    /\ LET msgs == codex.session.Messages
       IN  /\ \E j \in 1..Len(msgs) : msgs[j].Role = "developer"
           /\ \E j \in 1..Len(msgs) : msgs[j].Role = "user"
           /\ ContentLength(msgs, InputMessages(msgs)) = 10
           /\ ContentLength(msgs, (1..Len(msgs)) \ InputMessages(msgs)) = 13
    /\ codex.session.Tokens.Input = 2
    /\ codex.session.Tokens.Output = 3
    /\ codex.session.Tokens.Total = 5
    /\ codex.session.Cost = 5100

\* The token_count events of the file that supply a nonzero total.
NonzeroTotalEvents(lines) ==
    {i \in TokenCountEvents(lines) :
        /\ lines[i].Payload[1].usage[1].total_tokens # Nil
        /\ lines[i].Payload[1].usage[1].total_tokens[1] # 0}

\* C14 (estimation fallback): the parse returns the character estimate exactly
\* when no token_count event supplied a nonzero total, and then the reasoning
\* and cached counts are zero and total = input + output; otherwise it returns
\* the counts the token_count events left, unmodified.
C14_EstimationFallback ==
    [][(codex.pc = "loop" /\ codex'.pc = "done") =>
          IF NonzeroTotalEvents(codex.lines) = {}
          THEN /\ Estimated(codex'.session)
               /\ codex'.session.Tokens.Reasoning = 0
               /\ codex'.session.Tokens.Cached = 0
          ELSE codex'.session.Tokens = codex.session.Tokens]_vars

\* A parse has returned the estimate, with a cached count, for a file in which
\* a token_count event supplied a nonzero total and a later one the total 0.
C14_Witness ==
    /\ codex.pc = "done"
    /\ NonzeroTotalEvents(codex.lines) # {}
    /\ Last(TokenCountEvents(codex.lines)) \notin NonzeroTotalEvents(codex.lines)
    /\ codex.session.Messages # <<>>
    /\ Estimated(codex.session)
    /\ codex.session.Tokens.Cached # 0

-----------------------------------------------------------------------------
(* Properties of ParseClaudeSession, under SpecClaude *)

\* The records among the first n lines that supply an externalId / a project
\* path: sessionId or, when it is empty, session_id; cwd or, when it is empty,
\* project_path.
IDSuppliers(lines, n) ==
    {j \in 1..n : lines[j].kind = "entry"
                    /\ (lines[j].SessionID # "" \/ lines[j].SessionID2 # "")}

PathSuppliers(lines, n) ==
    {j \in 1..n : lines[j].kind = "entry"
                    /\ (lines[j].Cwd # "" \/ lines[j].Project # "")}

First(S) == CHOOSE i \in S : \A j \in S : i <= j

SuppliedID(line) == IF line.SessionID # "" THEN line.SessionID ELSE line.SessionID2

SuppliedPath(line) == IF line.Cwd # "" THEN line.Cwd ELSE line.Project

\* C10 (first-wins identity): after any number of records, and in the returned
\* session, the externalId is the one of the first record read that supplies a
\* non-empty one (sessionId before session_id) and the project path the one of
\* the first record that supplies a non-empty one (cwd before project_path);
\* both are empty while no record supplied one.
C10_FirstWinsIdentity ==
    claude.pc \in {"loop", "done"} =>
        LET n == claude.i - 1
            ids == IDSuppliers(claude.lines, n)
            paths == PathSuppliers(claude.lines, n)
        IN  /\ claude.session.ID =
                 IF ids = {} THEN "" ELSE SuppliedID(claude.lines[First(ids)])
            /\ claude.session.ProjectPath =
                 IF paths = {} THEN "" ELSE SuppliedPath(claude.lines[First(paths)])

\* A parse has returned for a file whose first supplying record carries both
\* sessionId and session_id, both cwd and project_path, and a later record
\* supplies other values.
C10_Witness ==
    /\ claude.pc = "done"
    /\ LET ids == IDSuppliers(claude.lines, Len(claude.lines))
           paths == PathSuppliers(claude.lines, Len(claude.lines))
       IN  /\ ids # {} /\ paths # {}
           /\ claude.lines[First(ids)].SessionID # ""
           /\ claude.lines[First(ids)].SessionID2 # ""
           /\ claude.lines[First(paths)].Cwd # ""
           /\ claude.lines[First(paths)].Project # ""
           /\ \E j \in ids : SuppliedID(claude.lines[j]) # claude.session.ID
           /\ \E j \in paths : SuppliedPath(claude.lines[j]) # claude.session.ProjectPath

\* The records among the first n lines that carry a message.usage object.
UsageRecords(lines, n) ==
    {j \in 1..n : lines[j].kind = "entry"
                    /\ lines[j].Message # Nil
                    /\ lines[j].Message[1].Usage # Nil}

\* The sum of one usage field over the records S of the file.
RECURSIVE SumUsage(_, _, _)
SumUsage(lines, S, field) ==
    IF S = {} THEN 0
    ELSE LET j == CHOOSE x \in S : TRUE
         IN  lines[j].Message[1].Usage[1][field] + SumUsage(lines, S \ {j}, field)

\* C12 (usage accumulation): after any number of records, and in the returned
\* session, each of input, output, cacheCreation and cacheRead is the sum of
\* that usage field over the records read that carry a message.usage; the
\* returned total is the sum of the four.
C12_UsageAccumulation ==
    claude.pc \in {"loop", "done"} =>
        LET recs == UsageRecords(claude.lines, claude.i - 1)
            t == claude.session.Tokens
        IN  /\ t.Input = SumUsage(claude.lines, recs, "InputTokens")
            /\ t.Output = SumUsage(claude.lines, recs, "OutputTokens")
            /\ t.CacheCreation = SumUsage(claude.lines, recs, "CacheCreationInputTokens")
            /\ t.CacheRead = SumUsage(claude.lines, recs, "CacheReadInputTokens")
            /\ claude.pc = "done" =>
                  t.Total = t.Input + t.Output + t.CacheCreation + t.CacheRead

\* A parse has returned for a file with several usage records, among them
\* records with different counts and non-zero cache counts.
C12_Witness ==
    /\ claude.pc = "done"
    /\ LET recs == UsageRecords(claude.lines, Len(claude.lines))
       IN  /\ Cardinality(recs) >= 2
           /\ \E j, k \in recs :
                 claude.lines[j].Message[1].Usage[1] # claude.lines[k].Message[1].Usage[1]
    /\ claude.session.Tokens.CacheCreation > 0
    /\ claude.session.Tokens.CacheRead > 0
    /\ claude.session.Tokens.Total > claude.session.Tokens.Input + claude.session.Tokens.Output

\* C15 (cost): the returned cost, in units of 10^-8 dollar, is 300 * input +
\* 1500 * output + 375 * cacheCreation + 30 * cacheRead of the returned
\* counts, no term rounded; 1000, 500, 200 and 100 tokens cost 1128000 units
\* (0.01128 dollar) and a file without usage costs 0.
C15_ClaudeCost ==
    claude.pc = "done" =>
        LET t == claude.session.Tokens
        IN  /\ claude.session.Cost =
                 300 * t.Input + 1500 * t.Output + 375 * t.CacheCreation + 30 * t.CacheRead
            /\ (t.Input = 1000 /\ t.Output = 500 /\ t.CacheCreation = 200 /\ t.CacheRead = 100)
                  => claude.session.Cost = 1128000
            /\ UsageRecords(claude.lines, Len(claude.lines)) = {}
                  => claude.session.Cost = 0

\* A parse has returned for the record of 1000, 500, 200 and 100 tokens.
C15_Witness ==
    /\ claude.pc = "done"
    /\ Cardinality(UsageRecords(claude.lines, Len(claude.lines))) = 1
    /\ claude.session.Tokens.Input = 1000
    /\ claude.session.Tokens.Output = 500
    /\ claude.session.Tokens.CacheCreation = 200
    /\ claude.session.Tokens.CacheRead = 100
    /\ claude.session.Cost = 1128000

-----------------------------------------------------------------------------
(* Properties of both parsers, under SpecParsers *)

\* The file without its blank lines and without the lines that fail to decode.
IsEntry(line) == line.kind = "entry"

WithoutSkipped(lines) == SelectSeq(lines, IsEntry)

\* C16 (malformed-line tolerance): either parser reads the file to its end and
\* returns a session, and the session is the one it returns for the same file
\* without its blank and undecodable lines: same identity, timestamps, tokens,
\* cost, messages and tool calls.
C16_MalformedLineTolerance ==
    /\ (codex.pc = "done") =>
          /\ codex.i = Len(codex.lines) + 1
          /\ codex.session = ParseCodexSession(WithoutSkipped(codex.lines))
    /\ (claude.pc = "done") =>
          /\ claude.i = Len(claude.lines) + 1
          /\ claude.session = ParseClaudeSession(WithoutSkipped(claude.lines))

\* A Codex parse has returned messages and a span for a file that has an
\* undecodable line between decoded ones and ends with one.
C16_Witness ==
    /\ codex.pc = "done"
    /\ Len(codex.lines) >= 3
    /\ codex.lines[1].kind = "entry"
    /\ \E j \in 2..(Len(codex.lines) - 1) : codex.lines[j].kind = "malformed"
    /\ codex.lines[Len(codex.lines)].kind \in {"malformed", "blank"}
    /\ codex.session.EndedAt # Some(ZeroTime)

AllZero(tokens) == \A f \in DOMAIN tokens : tokens[f] = 0

\* C17 (empty file): for a file of no line, or of blank and undecodable lines
\* only, either parser returns a session with the zero start time, an end time
\* that is zero or absent, every token count zero, cost zero, and no message
\* (and, for Codex, no tool call).
C17_EmptyFile ==
    /\ (codex.pc = "done" /\ WithoutSkipped(codex.lines) = <<>>) =>
          /\ codex.session.StartedAt = ZeroTime
          /\ codex.session.EndedAt \in {Nil, Some(ZeroTime)}
          /\ AllZero(codex.session.Tokens)
          /\ codex.session.Cost = 0
          /\ codex.session.Messages = <<>>
          /\ codex.session.ToolCalls = <<>>
    /\ (claude.pc = "done" /\ WithoutSkipped(claude.lines) = <<>>) =>
          /\ claude.session.StartedAt = ZeroTime
          /\ claude.session.EndedAt \in {Nil, Some(ZeroTime)}
          /\ AllZero(claude.session.Tokens)
          /\ claude.session.Cost = 0
          /\ claude.session.Messages = <<>>

\* The Codex parse of the zero-byte file has returned.
C17_Witness ==
    /\ codex.pc = "done"
    /\ codex.lines = <<>>
    /\ codex.session.EndedAt = Some(ZeroTime)

\* The decoded lines whose timestamp string is a timestamp.
Stamped(lines) == {i \in DOMAIN lines : IsEntry(lines[i]) /\ lines[i].Timestamp.layout # "bad"}

\* The instant a timestamp string of a line names, the zero time for none.
Instant(str) == IF str.layout = "bad" THEN ZeroTime ELSE str.t

\* C21 (session timing): in both parsers StartedAt is the timestamp of the
\* first decoded line whose timestamp parsed (the zero time when there is
\* none), whatever a session_meta payload says; EndedAt is the timestamp of the
\* last decoded line for Codex, parsed or not, and the timestamp of the last
\* decoded line whose timestamp parsed for Claude.
C21_SessionTiming ==
    /\ codex.pc = "done" =>
          LET decoded == {i \in DOMAIN codex.lines : IsEntry(codex.lines[i])}
              stamped == Stamped(codex.lines)
          IN  /\ codex.session.StartedAt =
                    IF stamped = {} THEN ZeroTime
                    ELSE Instant(codex.lines[First(stamped)].Timestamp)
              /\ codex.session.EndedAt =
                    Some(IF decoded = {} THEN ZeroTime
                         ELSE Instant(codex.lines[Last(decoded)].Timestamp))
    /\ claude.pc = "done" =>
          LET stamped == Stamped(claude.lines)
          IN  /\ claude.session.StartedAt =
                    IF stamped = {} THEN ZeroTime
                    ELSE Instant(claude.lines[First(stamped)].Timestamp)
              /\ claude.session.EndedAt =
                    Some(IF stamped = {} THEN ZeroTime
                         ELSE Instant(claude.lines[Last(stamped)].Timestamp))

\* A Codex file parsed: its first line has no timestamp, its second is a
\* session_meta whose payload names another instant than the line, its last
\* has no timestamp; the session starts at the second line's instant and ends
\* at the zero time.
C21_Witness ==
    /\ codex.pc = "done"
    /\ Len(codex.lines) = 3
    /\ IsEntry(codex.lines[1]) /\ codex.lines[1].Timestamp = TsBad
    /\ codex.lines[2].Type = "session_meta"
    /\ codex.lines[2].Payload[1].timestamp = Some(TsSec(9))
    /\ IsEntry(codex.lines[3]) /\ codex.lines[3].Timestamp = TsBad
    /\ codex.session.StartedAt = TsNano(10).t
    /\ codex.session.EndedAt = Some(ZeroTime)

\* The session_meta lines whose payload carries an id.
IDEvents(lines) ==
    {i \in DOMAIN lines :
        /\ IsEntry(lines[i])
        /\ lines[i].Type = "session_meta"
        /\ lines[i].Payload # Nil
        /\ lines[i].Payload[1].id # Nil}

\* C22 (externalId set once): the ID of the parsed Codex session is the id of
\* the first session_meta line that carries one, whatever ids later
\* session_meta lines carry.
C22_ExternalIDSetOnce ==
    codex.pc = "done" =>
        LET events == IDEvents(codex.lines)
        IN  events # {} =>
               codex.session.ID = codex.lines[First(events)].Payload[1].id[1]

\* A file parsed in which two session_meta lines carry different ids: the
\* session has the id of the later one.
C22_Witness ==
    /\ codex.pc = "done"
    /\ \E i, j \in IDEvents(codex.lines) :
          /\ i < j
          /\ j = Last(IDEvents(codex.lines))
          /\ codex.lines[i].Payload[1].id # codex.lines[j].Payload[1].id
          /\ codex.session.ID = codex.lines[j].Payload[1].id[1]

\* The line is not a decoded record of type "system".
NotSystem(line) == ~(IsEntry(line) /\ line.Type = "system")

\* C23 (system records are inert): the messages and the token counts of the
\* session parsed from a Claude file are those of the session parsed from the
\* file without its records of type "system", whatever those records carry.
C23_SystemRecordsInert ==
    claude.pc = "done" =>
        LET without == ParseClaudeSession(SelectSeq(claude.lines, NotSystem))
        IN  /\ claude.session.Messages = without.Messages
            /\ claude.session.Tokens = without.Tokens

\* A file parsed that holds a record of type "system" with a message carrying
\* usage and content: no message comes of it, its usage is in the counts.
C23_Witness ==
    /\ claude.pc = "done"
    /\ Len(claude.lines) = 2
    /\ claude.lines[1].Type = "user" /\ claude.lines[1].Input = "legacy"
    /\ claude.lines[2].Type = "system" /\ claude.lines[2].Message # Nil
    /\ Len(claude.session.Messages) = 1
    /\ claude.session.Tokens =
          [Input |-> 7, Output |-> 8, CacheCreation |-> 1, CacheRead |-> 2, Total |-> 18]

-----------------------------------------------------------------------------
(* Properties of the aggregation queries, under SpecStats *)

\* What a session contributes to a summed duration, as C18 states it.
Contribution(row) ==
    IF row.EndedAt = Nil THEN 0
    ELSE IF row.EndedAt[1] <= row.StartedAt THEN 0
         ELSE row.EndedAt[1] - row.StartedAt

RECURSIVE SumContribution(_, _)
SumContribution(d, S) ==
    IF S = {} THEN 0
    ELSE LET i == CHOOSE x \in S : TRUE
         IN  Contribution(d.sessions[i]) + SumContribution(d, S \ {i})

\* C18 (duration non-negativity): in the per-source totals, the all-source
\* totals, the per-agent breakdown and the daily and weekly buckets, for every
\* window, the total time is the sum over the sessions counted of endedAt -
\* startedAt when endedAt > startedAt and of 0 when endedAt is null or not
\* after startedAt; so it is never negative.
C18_DurationNonNegative ==
    \A since \in Sinces :
        LET all == GetAggregatedStatsAll(db, since).TotalSessionTime
        IN  /\ all = SumContribution(db, InPeriodAll(db, since))
            /\ all >= 0
            /\ \A e \in GetPerAgentStats(db, since) :
                  /\ e.TotalTime = SumContribution(db, InPeriod(db, e.Source, since))
                  /\ e.TotalTime >= 0
            /\ \A source \in Sources :
                  LET S == InPeriod(db, source, since)
                      one == GetAggregatedStats(db, source, since).TotalSessionTime
                      week == [i \in S |-> Week(db.sessions[i].StartedAt)]
                  IN  /\ one = SumContribution(db, S)
                      /\ one >= 0
                      /\ \A e \in GetDailySummaries(db, source, since) :
                            /\ e.TotalTime = SumContribution(db,
                                  {i \in S : Day(db.sessions[i].StartedAt) = e.Date})
                            /\ e.TotalTime >= 0
                      /\ \A e \in GetWeeklySummaries(db, source, since) :
                            /\ \E w \in {week[i] : i \in S} :
                                  e.TotalTime = SumContribution(db, {i \in S : week[i] = w})
                            /\ e.TotalTime >= 0

\* The store holds a session without an end, one that ended at its start, one
\* that ended before it and ones that ended after it.
C18_Witness ==
    /\ \E i \in DOMAIN db.sessions : db.sessions[i].EndedAt = Nil
    /\ \E i \in DOMAIN db.sessions :
          db.sessions[i].EndedAt = Some(db.sessions[i].StartedAt)
    /\ \E i \in DOMAIN db.sessions :
          db.sessions[i].EndedAt # Nil /\ db.sessions[i].EndedAt[1] < db.sessions[i].StartedAt
    /\ GetAggregatedStatsAll(db, ZeroTimeUnix).TotalSessionTime = 90
    /\ GetAggregatedStats(db, "claude", 0).TotalSessionTime = 30

\* What C19 states of a list returned for the rows S and the limit N.
TopModelsOf(d, S, N, list) ==
    LET Named == {d.sessions[i].Model : i \in S} \ {""}
        Exact(model) == Cardinality({i \in S : d.sessions[i].Model = model})
        Shown == {list[k].Model : k \in DOMAIN list}
    IN  /\ Len(list) = IF N < Cardinality(Named) THEN N ELSE Cardinality(Named)
        /\ \A k \in DOMAIN list :
              /\ list[k].Model \in Named
              /\ list[k].SessionCount = Exact(list[k].Model)
        /\ \A j, k \in DOMAIN list : j < k =>
              /\ list[j].Model # list[k].Model
              /\ list[j].SessionCount >= list[k].SessionCount
        /\ \A model \in Named \ Shown : \A k \in DOMAIN list :
              Exact(model) <= list[k].SessionCount

\* C19 (top-N models): for every window, source and N, each list GetTopModels
\* and GetTopModelsAll can return has one entry per distinct non-empty model of
\* the sessions selected, with its exact session count, in non-increasing order
\* of count, cut to at most N entries; the empty model is never an entry and
\* its sessions count toward no entry.
C19_TopModels ==
    \A since \in Sinces : \A N \in Limits :
        /\ GetTopModelsAll(db, since, N) # {}
        /\ \A list \in GetTopModelsAll(db, since, N) :
              TopModelsOf(db, InPeriodAll(db, since), N, list)
        /\ \A source \in Sources :
              /\ GetTopModels(db, source, since, N) # {}
              /\ \A list \in GetTopModels(db, source, since, N) :
                    TopModelsOf(db, InPeriod(db, source, since), N, list)

\* Six sessions, three of them without a model and three with two distinct
\* models: the query returns exactly the two entries, with their counts.
C19_Witness ==
    /\ Len(db.sessions) = 6
    /\ Cardinality({i \in DOMAIN db.sessions : db.sessions[i].Model = ""}) = 3
    /\ GetTopModelsAll(db, ZeroTimeUnix, MaxLimit)
          = {<<[Model |-> "gpt-5", SessionCount |-> 2],
               [Model |-> "claude-m", SessionCount |-> 1]>>}
    /\ Cardinality(GetTopModels(db, "claude", 0, 1)) = 2

\* C20 (recent sessions): for every N, each list GetRecentSessions(N) can
\* return holds min(N, number of stored sessions) distinct stored sessions, of
\* any source and any start time, in non-increasing order of start time, and no
\* stored session left out started later than a listed one; on the empty store
\* the list is empty.
C20_RecentSessions ==
    \A N \in Limits :
        /\ GetRecentSessions(db, N) # {}
        /\ (db.sessions = <<>> => GetRecentSessions(db, N) = {<<>>})
        /\ \A list \in GetRecentSessions(db, N) :
              /\ Len(list) = IF N < Len(db.sessions) THEN N ELSE Len(db.sessions)
              /\ \A k \in DOMAIN list :
                    /\ list[k].ID \in DOMAIN db.sessions
                    /\ list[k].Row = db.sessions[list[k].ID]
              /\ \A j, k \in DOMAIN list : j < k =>
                    /\ list[j].ID # list[k].ID
                    /\ list[j].Row.StartedAt >= list[k].Row.StartedAt
              /\ \A i \in DOMAIN db.sessions \ {list[k].ID : k \in DOMAIN list} :
                    \A k \in DOMAIN list :
                        db.sessions[i].StartedAt <= list[k].Row.StartedAt

\* More sessions are stored than asked for, of both sources, inserted in
\* another order than that of their starts; the two latest are returned, the
\* later first, and with N = 3 a session of the other source that started
\* before every window is listed or two of the same start compete.
C20_Witness ==
    /\ Len(db.sessions) = 4
    /\ db.sessions[1].ExternalID = "r5"
    /\ db.sessions[2].ExternalID = "r1"
    /\ db.sessions[3].ExternalID = "r4"
    /\ db.sessions[4].ExternalID = "r3"
    /\ GetRecentSessions(db, 2)
          = {<<[ID |-> 3, Row |-> db.sessions[3], MessageCount |-> 0],
               [ID |-> 4, Row |-> db.sessions[4], MessageCount |-> 0]>>}
    /\ \E list \in GetRecentSessions(db, MaxLimit) :
          list[3].Row.Source = "codex" /\ list[1].Row.Source = "claude"

\* The days a period looks back as C24 states it.
Lookback(period) ==
    IF period = "week" THEN 7 ELSE IF period = "month" THEN 30 ELSE 1

\* The sessions of a source that started, to the second, not earlier than the
\* lookback before the second of the instant now.
InWindow(d, source, period, now) ==
    {i \in DOMAIN d.sessions :
        /\ d.sessions[i].Source = source
        /\ d.sessions[i].StartedAt >= (now \div TicksPerSecond) - Lookback(period) * SecondsPerDay}

\* C24 (aggregation window): for period day, week and month, and for any other
\* value as for day, what GetUsageStats asked at the instant now reports covers
\* exactly the sessions of the source with startedAt >= now - 1, 7 or 30 days
\* (to the second): their count, tokens, messages and buckets; the last session
\* is one of them with the greatest startedAt, and none when there is none.
C24_AggregationWindow ==
    \A now \in Nows : \A period \in Periods : \A source \in Sources :
        LET stats == GetUsageStats(db, source, period, now)
            W == InWindow(db, source, period, now)
        IN  /\ stats.SessionCount = Cardinality(W)
            /\ stats.TotalTokens = SumColumn(db, W, "TotalTokens")
            /\ stats.TotalSessionTime = SumContribution(db, W)
            /\ stats.TotalMessages =
                  Cardinality({m \in DOMAIN db.messages : db.messages[m].SessionID \in W})
            /\ \A list \in stats.TopModels :
                  \A k \in DOMAIN list :
                      \E i \in W : db.sessions[i].Model = list[k].Model
            /\ period = "week" =>
                  {e.Date : e \in stats.DailySummaries}
                     = {Day(db.sessions[i].StartedAt) : i \in W}
            /\ period = "month" =>
                  Cardinality(stats.WeeklySummaries)
                     = Cardinality({Week(db.sessions[i].StartedAt) : i \in W})
            /\ stats.LastSession # {}
            /\ \A last \in stats.LastSession :
                  IF W = {} THEN last = Nil
                  ELSE /\ last # Nil
                       /\ last[1].ID \in W
                       /\ last[1].Row = db.sessions[last[1].ID]
                       /\ \A i \in W : db.sessions[i].StartedAt <= last[1].Row.StartedAt

\* The store holds sessions of a source inside and outside the day, the week
\* and the month before an instant; a session that started exactly a day
\* before the second of the instant is counted; forty days later the month
\* holds no session and there is no last session.
C24_Witness ==
    /\ Len(db.sessions) = 6
    /\ GetUsageStats(db, "codex", "day", TicksPerSecond * (SecondsPerDay + 1000) + 1).SessionCount = 2
    /\ GetUsageStats(db, "codex", "day", TicksPerSecond * (SecondsPerDay + 1100) + 1).SessionCount = 1
    /\ GetUsageStats(db, "claude", "day", TicksPerSecond * (8 * SecondsPerDay + 500)).SessionCount = 1
    /\ GetUsageStats(db, "claude", "week", TicksPerSecond * (8 * SecondsPerDay + 500)).SessionCount = 3
    /\ GetUsageStats(db, "codex", "month", TicksPerSecond * (8 * SecondsPerDay + 500)).SessionCount = 2
    /\ GetUsageStats(db, "codex", "year", TicksPerSecond * (8 * SecondsPerDay + 500)).SessionCount = 0
    /\ GetUsageStats(db, "claude", "month", TicksPerSecond * (40 * SecondsPerDay)).LastSession = {Nil}
    /\ \E last \in GetUsageStats(db, "claude", "week", TicksPerSecond * (8 * SecondsPerDay + 500)).LastSession :
          last[1].Row.ExternalID = "r4"

\* The field of the entries of a breakdown, summed.
RECURSIVE SumEntries(_, _)
SumEntries(entries, field) ==
    IF entries = {} THEN 0
    ELSE LET e == CHOOSE x \in entries : TRUE
         IN  e[field] + SumEntries(entries \ {e}, field)

\* C29 (per-source breakdown and all-source totals): in every store and for
\* every window start, the entries of GetPerAgentStats summed give the session
\* count, the input, output, cache-creation, cache-read and total tokens and
\* the total time of GetAggregatedStatsAll, and the messages of
\* GetMessageCountAll.
C29_BreakdownSumsToTotals ==
    \A since \in Sinces :
        LET entries == GetPerAgentStats(db, since)
            all == GetAggregatedStatsAll(db, since)
        IN  /\ SumEntries(entries, "SessionCount") = all.SessionCount
            /\ SumEntries(entries, "TotalInputTokens") = all.TotalInputTokens
            /\ SumEntries(entries, "TotalOutputTokens") = all.TotalOutputTokens
            /\ SumEntries(entries, "TotalCacheCreation") = all.TotalCacheCreation
            /\ SumEntries(entries, "TotalCacheRead") = all.TotalCacheRead
            /\ SumEntries(entries, "TotalTokens") = all.TotalTokens
            /\ SumEntries(entries, "TotalTime") = all.TotalSessionTime
            /\ SumEntries(entries, "TotalMessages") = GetMessageCountAll(db, since)

\* The store holds sessions of both sources with and without messages, inside
\* and outside a window; the breakdown has two entries that differ, and the
\* messages of a session outside the window are not counted.
C29_Witness ==
    /\ Len(db.sessions) = 6
    /\ Len(db.messages) = 3
    /\ Cardinality(GetPerAgentStats(db, 1100)) = 2
    /\ \E e \in GetPerAgentStats(db, 0) : e.Source = "codex" /\ e.TotalMessages = 2
    /\ \E e \in GetPerAgentStats(db, 0) : e.Source = "claude" /\ e.TotalMessages = 1
    /\ GetMessageCountAll(db, 0) = 3
    /\ GetMessageCountAll(db, 1100) = 1
    /\ GetAggregatedStatsAll(db, 1100).SessionCount = 4

-----------------------------------------------------------------------------
(* Properties of LoadConfig, under SpecConfig *)

\* C25 (missing config file): LoadConfig with a config path at which no file
\* exists returns no error and a configuration, with Codex enabled and Claude
\* enabled, whatever the file at the default location holds.
C25_MissingConfigFile ==
    (/\ config.pc = "done"
     /\ config.configPath # Path("", "")
     /\ config.custom.kind \in {"missing", "notdir"}) =>
        /\ config.result[1].err = ErrNil
        /\ config.result[1].cfg # Nil
        /\ config.result[1].cfg[1].Agents.Codex
        /\ config.result[1].cfg[1].Agents.ClaudeCode

\* LoadConfig of internal/config/config.go has returned for a path with the
\* extension toml at which no file exists: an error and no configuration.
C25_Witness ==
    /\ config.pc = "done"
    /\ config.revision = "internal/config/config.go"
    /\ config.configPath = Path("/etc/custom", "toml")
    /\ config.custom.kind = "missing"
    /\ config.result[1] = Failed("failed to read config file")

====
